---- MODULE Spec2Model ----
(***************************************************************************)
(* State-machine model of the cash-register bookkeeping application        *)
(* (src/app.py): the four tables (user, registro_diario, sangria,          *)
(* livro_financeiro), the login sessions, and one action per request       *)
(* handler.  A request is one atomic step (one database transaction), but  *)
(* for SpecRace, where the abertura POST is split at its two database      *)
(* round trips.                                                             *)
(*                                                                         *)
(* Amounts are whole numbers (multiples of 5, so that the 80% of the iFood *)
(* figure is a whole number too); a 'dd/mm/aaaa' string is the tuple       *)
(* <<dd, mm, aaaa>>.  Primary keys are allocated as SQLite does for an     *)
(* INTEGER PRIMARY KEY (largest key in the table plus one), the default    *)
(* database of the application.                                            *)
(***************************************************************************)
EXTENDS Integers, Sequences, FiniteSets, TLC

VARIABLES
    users,      \* table user: id -> [username, password_hash, role]
    registros,  \* table registro_diario: id -> row (see Colunas)
    sangrias,   \* table sangria: registro_id -> rows in insertion order
    livro,      \* table livro_financeiro: id -> row
    sessions,   \* user ids held by the login cookies of the browsers
    pend,       \* abertura POSTs between their query and their insert
    resp        \* the last response (see Flash)

vars == <<users, registros, sangrias, livro, sessions, pend, resp>>

db == <<users, registros, sangrias, livro>>

\* ------------------------------------------------------------------ bounds
MaxUserId == 2
MaxRegistroId == 2
MaxLivroId == 1
MaxPend == 2

UserIds == 1..MaxUserId
RegistroIds == 1..MaxRegistroId
LivroIds == 1..MaxLivroId

\* The week-over-week figures of a register with no register to compare
\* with: base_data and base_vendas are None (<<>>), percent is 0.  A percent
\* is the fraction <<numerator, denominator>>.
SemBase == [base_data |-> <<>>, base_vendas |-> <<>>, percent |-> <<0, 1>>]

\* A response that is a flashed message, an HTTP error or a page with no
\* figures.  A rendered page carries the part of its template context the
\* model follows: resumo_dia the register, its total and wow; historico its
\* registers in the order listed; the two ledger reports their days and
\* their pivot, admin_lancamentos its entries too, admin_relatorio its
\* card/PIX lines, its totals per payment method and its fee table.
Flash(msg) ==
    [msg |-> msg, registro_id |-> 0, total_vendas |-> 0, wow |-> SemBase,
     registros |-> <<>>, itens |-> <<>>, dias |-> <<>>, pivot |-> <<>>,
     linhas_maqs |-> <<>>,
     tot_por_meio |-> [debito |-> <<>>, credito |-> <<>>, pix |-> <<>>],
     tax_rows |-> <<>>]

\* The client that holds no login cookie.
Anonymous == 0

\* ------------------------------------------------------------ primary keys
RECURSIVE SetMax(_)
SetMax(S) ==
    IF S = {} THEN 0
    ELSE LET x == CHOOSE y \in S : TRUE
             m == SetMax(S \ {x})
         IN  IF x > m THEN x ELSE m

\* INTEGER PRIMARY KEY of a new row.
NextId(table) == SetMax(DOMAIN table) + 1

\* Removes the row with key k.
DeleteRow(table, k) == [i \in DOMAIN table \ {k} |-> table[i]]

\* Adds (or replaces) the row with key k.
PutRow(table, k, row) ==
    [i \in DOMAIN table \cup {k} |-> IF i = k THEN row ELSE table[i]]

\* ------------------------------------------------------------------- users
\* werkzeug's salted hash, up to what check_password_hash tells of it.
generate_password_hash(password) == <<"pbkdf2", password>>

check_password(user, password) ==
    user.password_hash = generate_password_hash(password)

\* str.strip() on the form values the model sends.
Strip(s) ==
    CASE s = " ana " -> "ana"
      [] s = " "     -> ""
      [] OTHER       -> s

\* The forms POSTed to /admin/users.
UserForms ==
    { [username |-> " ana ", password |-> "s1", role |-> "caixa"],
      [username |-> "ana",   password |-> "s1", role |-> "admin"],
      [username |-> "admin", password |-> "s1", role |-> "gerente"],
      [username |-> " ",     password |-> "s1", role |-> ""],
      [username |-> "ana",   password |-> " ",  role |-> "admin"] }

\* The passwords POSTed to /admin/users/<id>/reset.
PasswordInputs == {"s1", ""}

\* The forms POSTed to /login.
LoginForms ==
    { [username |-> "admin", password |-> "admin123"],
      [username |-> "admin", password |-> "s1"],
      [username |-> "ana",   password |-> "s1"],
      [username |-> "ana",   password |-> "token"] }

\* secrets.token_urlsafe(8)
Token == "token"

UserByName(name) == {i \in DOMAIN users : users[i].username = name}

\* Flask-Login's current_user for the cookie c: load_user(c), or the
\* anonymous user when the row is gone.
IsAuthenticated(c) == c \in DOMAIN users

\* @login_required in the place of @require_admin.
IsLoggedIn(c) == c \in DOMAIN users

\* @require_admin lets the view run.
IsAdmin(c) == IsAuthenticated(c) /\ users[c].role = "admin"

MsgLogin == "Por favor, inicie a sessao para aceder a esta pagina."
MsgAdmin == "Acesso restrito a administradores."
MsgDuplicado == "Ja existe um usuario com esse nome."
MsgSiMesmo == "Voce nao pode remover a si mesmo."

\* The response of @login_required / @require_admin when the view does not run.
Denied(c) == IF IsAuthenticated(c) THEN MsgAdmin ELSE MsgLogin

Clients == sessions \cup {Anonymous}

\* /init-db with no look for an existing 'admin'.
init_db_sem_verificar ==
    /\ NextId(users) \in UserIds
    /\ users' = PutRow(users, NextId(users),
           [username |-> "admin",
            password_hash |-> generate_password_hash("admin123"),
            role |-> "admin"])
    /\ resp' = Flash("Banco de dados inicializado e usuario 'admin' criado.")
    /\ UNCHANGED <<registros, sangrias, livro, sessions, pend>>

\* GET /init-db
init_db_command ==
    IF UserByName("admin") # {}
    THEN /\ resp' = Flash("Banco de dados ja inicializado e admin ja existe.")
         /\ UNCHANGED <<db, sessions, pend>>
    ELSE /\ NextId(users) \in UserIds
         /\ users' = PutRow(users, NextId(users),
                [username |-> "admin",
                 password_hash |-> generate_password_hash("admin123"),
                 role |-> "admin"])
         /\ resp' = Flash("Banco de dados inicializado e usuario 'admin' criado.")
         /\ UNCHANGED <<registros, sangrias, livro, sessions, pend>>

\* POST /login
login(username, password) ==
    LET found == UserByName(username) IN
    IF found # {} /\ check_password(users[CHOOSE i \in found : TRUE], password)
    THEN /\ sessions' = sessions \cup found
         /\ resp' = Flash("redirect homepage")
         /\ UNCHANGED <<db, pend>>
    ELSE /\ resp' = Flash("Nome de utilizador ou password invalidos.")
         /\ UNCHANGED <<db, sessions, pend>>

\* GET /logout
logout(c) ==
    IF ~IsAuthenticated(c)
    THEN /\ resp' = Flash(MsgLogin)
         /\ UNCHANGED <<db, sessions, pend>>
    ELSE /\ sessions' = sessions \ {c}
         /\ resp' = Flash("Sessao terminada com sucesso.")
         /\ UNCHANGED <<db, pend>>

\* The role stored for the role the form sends.
RoleOf(role) ==
    LET r == Strip(IF role = "" THEN "user" ELSE role)
    IN  IF r \in {"admin", "user", "caixa"} THEN r ELSE "user"

\* POST /admin/users
admin_users(c, usernameRaw, passwordRaw, roleRaw) ==
    LET username == Strip(usernameRaw)
        password == Strip(passwordRaw)
    IN
    IF ~IsAdmin(c)
    THEN /\ resp' = Flash(Denied(c))
         /\ UNCHANGED <<db, sessions, pend>>
    ELSE IF username = "" \/ password = ""
    THEN /\ resp' = Flash("Preencha usuario e senha.")
         /\ UNCHANGED <<db, sessions, pend>>
    ELSE IF UserByName(username) # {}
    THEN /\ resp' = Flash(MsgDuplicado)
         /\ UNCHANGED <<db, sessions, pend>>
    ELSE /\ NextId(users) \in UserIds
         /\ users' = PutRow(users, NextId(users),
                [username |-> username,
                 password_hash |-> generate_password_hash(password),
                 role |-> RoleOf(roleRaw)])
         /\ resp' = Flash("Usuario criado com sucesso.")
         /\ UNCHANGED <<registros, sangrias, livro, sessions, pend>>

\* POST /admin/users/<user_id>/reset
admin_users_reset(c, user_id, passwordRaw) ==
    LET given == Strip(passwordRaw)
        new_password == IF given = "" THEN Token ELSE given
    IN
    IF ~IsAdmin(c)
    THEN /\ resp' = Flash(Denied(c))
         /\ UNCHANGED <<db, sessions, pend>>
    ELSE IF user_id \notin DOMAIN users
    THEN /\ resp' = Flash("404")
         /\ UNCHANGED <<db, sessions, pend>>
    ELSE /\ users' = [users EXCEPT ![user_id].password_hash =
                                        generate_password_hash(new_password)]
         /\ resp' = Flash(IF given = "" THEN "Senha redefinida. Nova senha temporaria."
                                        ELSE "Senha redefinida com sucesso.")
         /\ UNCHANGED <<registros, sangrias, livro, sessions, pend>>

\* The registers db.session.delete(user) sets user_id = NULL on (the
\* relationship User.registros has no delete cascade).
RegistrosOf(user_id) == {r \in DOMAIN registros : registros[r].user_id = user_id}

\* The delete with no look at who asks.
IsSelfNunca(c, user_id) == FALSE

\* user.id == current_user.id
IsSelf(c, user_id) == user_id = c

\* user.role == 'admin' and the count of admins is at most 1.
IsOnlyAdmin(user_id) ==
    /\ users[user_id].role = "admin"
    /\ Cardinality({i \in DOMAIN users : users[i].role = "admin"}) <= 1

\* POST /admin/users/<user_id>/delete
admin_users_delete(c, user_id) ==
    IF ~IsAdmin(c)
    THEN /\ resp' = Flash(Denied(c))
         /\ UNCHANGED <<db, sessions, pend>>
    ELSE IF user_id \notin DOMAIN users
    THEN /\ resp' = Flash("404")
         /\ UNCHANGED <<db, sessions, pend>>
    ELSE IF IsSelf(c, user_id)
    THEN /\ resp' = Flash(MsgSiMesmo)
         /\ UNCHANGED <<db, sessions, pend>>
    ELSE IF IsOnlyAdmin(user_id)
    THEN /\ resp' = Flash("Nao e possivel remover o unico administrador.")
         /\ UNCHANGED <<db, sessions, pend>>
    ELSE IF RegistrosOf(user_id) # {}
    THEN \* UPDATE registro_diario SET user_id = NULL violates NOT NULL:
         \* the commit raises IntegrityError and the transaction is lost.
         /\ resp' = Flash("500")
         /\ UNCHANGED <<db, sessions, pend>>
    ELSE /\ users' = DeleteRow(users, user_id)
         /\ resp' = Flash("Usuario removido.")
         /\ UNCHANGED <<registros, sangrias, livro, sessions, pend>>

\* --------------------------------------------------------------- amounts
\* parse_brl_to_float on the form values the model sends.
parse_brl_to_float(s) ==
    CASE s = ""         -> 0
      [] s = "0"        -> 0
      [] s = "abc"      -> 0
      [] s = "5,00"     -> 5
      [] s = "R$ 5,00"  -> 5
      [] s = "R$ 10,00" -> 10
      [] s = "-5,00"    -> 0 - 5

\* The key of a dict, or the default: dict.get(key, default).
Get(dict, key, default) == IF key \in DOMAIN dict THEN dict[key] ELSE default

\* ----------------------------------------------------------------- dates
IsLeap(y) == (y % 4 = 0 /\ y % 100 # 0) \/ y % 400 = 0

DaysInMonth(m, y) ==
    CASE m \in {1, 3, 5, 7, 8, 10, 12} -> 31
      [] m \in {4, 6, 9, 11}           -> 30
      [] OTHER                         -> IF IsLeap(y) THEN 29 ELSE 28

\* A day, month and year datetime accepts.
ValidDate(d, m, y) ==
    /\ y \in 1..9999
    /\ m \in 1..12
    /\ d \in 1..DaysInMonth(m, y)

\* datetime.now(), as 'dd/mm/aaaa'.
Hoje == <<1, 2, 2024>>

\* A raw date is <<"iso", aaaa, mm, dd>> for 'aaaa-mm-dd', <<"br", dd, mm,
\* aaaa>> for 'dd/mm/aaaa', <<>> for a missing or empty one, <<"bad">> for
\* any other text.
coerce_to_br_date(raw) ==
    IF raw = <<>> THEN Hoje
    ELSE IF raw[1] = "iso" /\ ValidDate(raw[4], raw[3], raw[2])
    THEN <<raw[4], raw[3], raw[2]>>
    ELSE IF raw[1] = "br" /\ ValidDate(raw[2], raw[3], raw[4])
    THEN <<raw[2], raw[3], raw[4]>>
    ELSE Hoje

DataInputs ==
    { <<>>, <<"bad">>, <<"iso", 2024, 1, 25>>, <<"br", 25, 1, 2024>>,
      <<"br", 31, 2, 2024>> }

\* The days of year y before its month m.
DaysBeforeMonth(m, y) ==
    <<0, 31, 59, 90, 120, 151, 181, 212, 243, 273, 304, 334>>[m]
    + (IF m > 2 /\ IsLeap(y) THEN 1 ELSE 0)

\* date.toordinal() of the day <<dd, mm, aaaa>>.
toordinal(dia) ==
    LET y1 == dia[3] - 1
    IN  365 * y1 + (y1 \div 4) - (y1 \div 100) + (y1 \div 400)
        + DaysBeforeMonth(dia[2], dia[3]) + dia[1]

\* date.weekday(): 0 for Monday.
weekday(dia) == (toordinal(dia) + 6) % 7

\* dia + timedelta(days=1)
NextDay(dia) ==
    IF dia[1] < DaysInMonth(dia[2], dia[3]) THEN <<dia[1] + 1, dia[2], dia[3]>>
    ELSE IF dia[2] < 12 THEN <<1, dia[2] + 1, dia[3]>>
    ELSE <<1, 1, dia[3] + 1>>

\* dia - timedelta(days=1)
PrevDay(dia) ==
    IF dia[1] > 1 THEN <<dia[1] - 1, dia[2], dia[3]>>
    ELSE IF dia[2] > 1 THEN <<DaysInMonth(dia[2] - 1, dia[3]), dia[2] - 1, dia[3]>>
    ELSE <<31, 12, dia[3] - 1>>

\* dia + timedelta(days=n)
RECURSIVE AddDays(_, _)
AddDays(dia, n) ==
    IF n = 0 THEN dia
    ELSE IF n > 0 THEN AddDays(NextDay(dia), n - 1)
    ELSE AddDays(PrevDay(dia), n + 1)

\* A datetime is its day and its time of day: hora is 0 at midnight (what
\* strptime of a date gives) and 1 at the time of day of datetime.now().
Datetime(dia, hora) == [dia |-> dia, hora |-> hora]

\* datetime.now()
Agora == Datetime(Hoje, 1)

\* a + timedelta(days=n)
Mais(a, n) == Datetime(AddDays(a.dia, n), a.hora)

\* a < b and a <= b on datetimes.
Antes(a, b) ==
    \/ toordinal(a.dia) < toordinal(b.dia)
    \/ toordinal(a.dia) = toordinal(b.dia) /\ a.hora < b.hora

AteOuIgual(a, b) == ~Antes(b, a)

\* (b - a).days for a <= b: the whole days of the difference.
DiasEntre(a, b) ==
    toordinal(b.dia) - toordinal(a.dia) - (IF b.hora < a.hora THEN 1 ELSE 0)

\* -------------------------------------------------------------- registers
\* The columns fechamento writes from the payload.
CamposFechamento ==
    { "valor_final_caixa",
      "ifood_vendas", "ifood_pedidos", "ifood_cancelamento",
      "food99_vendas", "food99_pedidos",
      "pedidos_balcao", "pedidos_zap", "pedidos_vuca", "taxa_entrega",
      "mp_debito", "mp_credito", "mp_pix",
      "itau1_debito", "itau1_credito", "itau1_pix",
      "itau2_debito", "itau2_credito", "itau2_pix",
      "itau3_debito", "itau3_credito", "itau3_pix",
      "valori_debito", "valori_credito", "valori_pix",
      "infinitepay_debito", "infinitepay_credito", "infinitepay_pix",
      "c6_pix",
      "vuca_delivery_dinheiro", "vuca_delivery_debito",
      "vuca_delivery_credito", "vuca_delivery_pix",
      "vuca_balcao_dinheiro", "vuca_balcao_debito",
      "vuca_balcao_credito", "vuca_balcao_pix" }

\* The columns of registro_diario but the key.
Colunas ==
    {"data", "user_id", "status", "valor_inicial_caixa"} \cup CamposFechamento

\* RegistroDiario(data=, user_id=, valor_inicial_caixa=): every other column
\* takes its default.
RegistroDiario(data, user_id, valor_inicial_caixa) ==
    [col \in Colunas |->
        CASE col = "data"                -> data
          [] col = "user_id"             -> user_id
          [] col = "status"              -> "aberto"
          [] col = "valor_inicial_caixa" -> valor_inicial_caixa
          [] OTHER                       -> 0]

\* The query for an open register narrowed to today's date.
registro_aberto_hoje(user_id) ==
    {r \in DOMAIN registros :
        /\ registros[r].status = "aberto"
        /\ registros[r].user_id = user_id
        /\ registros[r].data = Hoje}

\* RegistroDiario.query.filter_by(status='aberto', user_id=user_id)
registro_aberto(user_id) ==
    {r \in DOMAIN registros :
        registros[r].status = "aberto" /\ registros[r].user_id = user_id}

\* The form keys of the denominations: f"v_{str(d).replace('.', '_')}".
DenomKeys ==
    <<"v_0_05", "v_0_1", "v_0_25", "v_0_5", "v_1", "v_2", "v_5", "v_10",
      "v_20", "v_50", "v_100">>

RECURSIVE SomaDenoms(_, _)
SomaDenoms(form, n) ==
    IF n = 0 THEN 0
    ELSE SomaDenoms(form, n - 1) + parse_brl_to_float(Get(form, DenomKeys[n], "0"))

\* The opening amount of a form POST read from the hidden field alone.
ValorInicialHidden(form) == parse_brl_to_float(Get(form, "valor_inicial", "0"))

\* The opening amount of a form POST: the sum of the denomination totals
\* when it is positive, the hidden field otherwise.
ValorInicialForm(form) ==
    LET soma == SomaDenoms(form, Len(DenomKeys))
        valor_inicial_hidden == parse_brl_to_float(Get(form, "valor_inicial", "0"))
    IN  IF soma > 0 THEN soma ELSE valor_inicial_hidden

\* The opening amount of a JSON POST.
ValorInicialJson(dados) == Get(dados, "valor_inicial", 0)

\* The bodies of the abertura POSTs: [json |-> TRUE, dados |-> ...] or
\* [json |-> FALSE, form |-> ...]; data_abertura is a raw date.
AberturaInputs ==
    { [json |-> TRUE,  body |-> <<>>],
      [json |-> TRUE,  body |-> [valor_inicial |-> 5,
                                 data_abertura |-> <<"iso", 2024, 1, 25>>]],
      [json |-> FALSE, body |-> [valor_inicial |-> "5,00",
                                 data_abertura |-> <<"iso", 2024, 1, 25>>]],
      [json |-> FALSE, body |-> [v_5 |-> "5,00", v_0_5 |-> "abc",
                                 valor_inicial |-> "R$ 10,00",
                                 data_abertura |-> <<"br", 25, 1, 2024>>]],
      [json |-> FALSE, body |-> [v_2 |-> "-5,00", valor_inicial |-> "0",
                                 data_abertura |-> <<"br", 31, 2, 2024>>]] }

\* The register an accepted abertura POST of user_id inserts.
NovoRegistro(user_id, in) ==
    RegistroDiario(
        coerce_to_br_date(Get(in.body, "data_abertura", <<>>)),
        user_id,
        IF in.json THEN ValorInicialJson(in.body) ELSE ValorInicialForm(in.body))

MsgJaAberto == "Ja existe um caixa aberto."
MsgFechado == "Fechamento de caixa salvo com sucesso!"
MsgAberto == "Caixa aberto com sucesso!"

\* An abertura that sets a closed register of the user back to 'aberto' where
\* there is one, and inserts a row only where there is none.
ReabreRegistro(row) ==
    LET fechados == {r \in DOMAIN registros :
                        /\ registros[r].user_id = row.user_id
                        /\ registros[r].status = "fechado"}
    IN  IF fechados = {}
        THEN /\ NextId(registros) \in RegistroIds
             /\ registros' = PutRow(registros, NextId(registros), row)
        ELSE \E r \in fechados :
                registros' = [registros EXCEPT ![r].status = "aberto"]

\* db.session.add(novo_registro); db.session.commit()
InsertRegistro(row) ==
    /\ NextId(registros) \in RegistroIds
    /\ registros' = PutRow(registros, NextId(registros), row)

\* POST /abertura, as one transaction.
abertura(c, in) ==
    IF ~IsAuthenticated(c)
    THEN /\ resp' = Flash(MsgLogin)
         /\ UNCHANGED <<db, sessions, pend>>
    ELSE IF registro_aberto(c) # {}
    THEN /\ resp' = Flash(MsgJaAberto)
         /\ UNCHANGED <<db, sessions, pend>>
    ELSE /\ InsertRegistro(NovoRegistro(c, in))
         /\ resp' = Flash(MsgAberto)
         /\ UNCHANGED <<users, sangrias, livro, sessions, pend>>

\* POST /abertura up to the answer of its query for an open register: the
\* request goes on to its insert only when the query found none.
abertura_query(c, in, slot) ==
    /\ slot \notin DOMAIN pend
    /\ IsAuthenticated(c)
    /\ IF registro_aberto(c) # {}
       THEN /\ resp' = Flash(MsgJaAberto)
            /\ UNCHANGED <<db, sessions, pend>>
       ELSE /\ pend' = PutRow(pend, slot, NovoRegistro(c, in))
            /\ UNCHANGED <<db, sessions, resp>>

\* POST /abertura from its insert to its commit.
abertura_insert(slot) ==
    /\ slot \in DOMAIN pend
    /\ InsertRegistro(pend[slot])
    /\ pend' = DeleteRow(pend, slot)
    /\ resp' = Flash(MsgAberto)
    /\ UNCHANGED <<users, sangrias, livro, sessions>>

\* The rows Sangria(...) of the payload's list, in its order.
NovasSangrias(dados) ==
    LET lista == Get(dados, "sangrias", <<>>)
    IN  [i \in 1..Len(lista) |->
            [descricao       |-> Get(lista[i], "descricao", ""),
             valor           |-> Get(lista[i], "valor", 0),
             forma_pagamento |-> Get(lista[i], "forma_pagamento", "")]]

\* The assignments of fechamento with the column's value as the default.
FechadoMantem(registro, dados) ==
    [col \in Colunas |->
        IF col = "status" THEN "fechado"
        ELSE IF col \in CamposFechamento THEN Get(dados, col, registro[col])
        ELSE registro[col]]

\* The assignments of fechamento with the date set to today's and the
\* opening amount cleared with the other figures.
FechadoHoje(registro, dados) ==
    [col \in Colunas |->
        IF col = "status" THEN "fechado"
        ELSE IF col = "data" THEN Hoje
        ELSE IF col \in CamposFechamento \cup {"valor_inicial_caixa"}
        THEN Get(dados, col, 0)
        ELSE registro[col]]

\* The register after the assignments of fechamento from the payload.
Fechado(registro, dados) ==
    [col \in Colunas |->
        IF col = "status" THEN "fechado"
        ELSE IF col \in CamposFechamento THEN Get(dados, col, 0)
        ELSE registro[col]]

\* A fechamento payload of cash and terminal figures only.
DadosCartoes ==
    [valor_final_caixa |-> 10, mp_debito |-> 5, itau1_pix |-> 10,
     c6_pix |-> 5, pedidos_balcao |-> 2]

\* A fechamento payload with delivery-platform figures and two withdrawals.
DadosComSangrias ==
    [valor_final_caixa |-> 5, ifood_vendas |-> 10, ifood_cancelamento |-> 5,
     ifood_pedidos |-> 1, food99_vendas |-> 5, food99_pedidos |-> 1,
     vuca_balcao_dinheiro |-> 5, taxa_entrega |-> 5,
     sangrias |-> << [descricao |-> "troco", valor |-> 5,
                      forma_pagamento |-> "Dinheiro"],
                     [valor |-> 5, forma_pagamento |-> "PIX"] >>]

\* The JSON bodies of the fechamento POSTs (<<>>: no or an empty JSON body).
FechamentoInputs == { <<>>, DadosCartoes, DadosComSangrias }

\* The payload's rows added with no delete of the register's rows.
AcrescentaSangrias(registro_id, dados) ==
    [sangrias EXCEPT ![registro_id] = @ \o NovasSangrias(dados)]

\* The sangria table after the rows of the register are deleted and the
\* payload's are added.
RegravaSangrias(registro_id, dados) ==
    [sangrias EXCEPT ![registro_id] = NovasSangrias(dados)]

\* POST /fechamento/<registro_id>
fechamento(c, registro_id, dados) ==
    IF ~IsAuthenticated(c)
    THEN /\ resp' = Flash(MsgLogin)
         /\ UNCHANGED <<db, sessions, pend>>
    ELSE IF registro_id \notin DOMAIN registros
    THEN /\ resp' = Flash("404")
         /\ UNCHANGED <<db, sessions, pend>>
    ELSE IF registros[registro_id].user_id \notin DOMAIN users
    THEN \* registro.author is None
         /\ resp' = Flash("500")
         /\ UNCHANGED <<db, sessions, pend>>
    ELSE IF registros[registro_id].user_id # c
    THEN /\ resp' = Flash("Acesso nao autorizado.")
         /\ UNCHANGED <<db, sessions, pend>>
    ELSE /\ registros' = [registros EXCEPT
                             ![registro_id] = Fechado(registros[registro_id], dados)]
         /\ sangrias' = RegravaSangrias(registro_id, dados)
         /\ resp' = Flash(MsgFechado)
         /\ UNCHANGED <<users, livro, sessions, pend>>

\* The sangria table after a delete of the register alone, with no cascade.
SemCascade(registro_id) == sangrias

\* The sangria table after db.session.delete(reg): the relationship
\* RegistroDiario.sangrias cascades the delete to the register's rows.
CascadeSangrias(registro_id) == [sangrias EXCEPT ![registro_id] = <<>>]

\* POST /admin/registros/<registro_id>/delete
admin_delete_registro(c, registro_id) ==
    IF ~IsAdmin(c)
    THEN /\ resp' = Flash(Denied(c))
         /\ UNCHANGED <<db, sessions, pend>>
    ELSE IF registro_id \notin DOMAIN registros
    THEN /\ resp' = Flash("404")
         /\ UNCHANGED <<db, sessions, pend>>
    ELSE IF registros[registro_id].status # "fechado"
    THEN /\ resp' = Flash("So e possivel excluir registros ja fechados.")
         /\ UNCHANGED <<db, sessions, pend>>
    ELSE /\ registros' = DeleteRow(registros, registro_id)
         /\ sangrias' = CascadeSangrias(registro_id)
         /\ resp' = Flash("Fechamento excluido com sucesso.")
         /\ UNCHANGED <<users, livro, sessions, pend>>

\* ------------------------------------------------------ register summary
\* sum([...]) over the card and PIX columns of the terminals.
CamposMaquininhas ==
    { "mp_debito", "mp_credito", "mp_pix",
      "itau1_debito", "itau1_credito", "itau1_pix",
      "itau2_debito", "itau2_credito", "itau2_pix",
      "itau3_debito", "itau3_credito", "itau3_pix",
      "valori_debito", "valori_credito", "valori_pix",
      "infinitepay_debito", "infinitepay_credito", "infinitepay_pix",
      "c6_pix" }

RECURSIVE SumCols(_, _)
SumCols(row, cols) ==
    IF cols = {} THEN 0
    ELSE LET col == CHOOSE x \in cols : TRUE
         IN  row[col] + SumCols(row, cols \ {col})

total_maquininhas(registro) == SumCols(registro, CamposMaquininhas)

\* str.lower() on the payment labels the model sends.
Lower(s) == IF s = "Dinheiro" THEN "dinheiro" ELSE IF s = "PIX" THEN "pix" ELSE s

RECURSIVE SumDinheiro(_, _)
SumDinheiro(rows, n) ==
    IF n = 0 THEN 0
    ELSE SumDinheiro(rows, n - 1)
         + (IF Lower(rows[n].forma_pagamento) = "dinheiro" THEN rows[n].valor ELSE 0)

\* The cash withdrawals of the register.
sangrias_dinheiro(registro_id) ==
    SumDinheiro(sangrias[registro_id], Len(sangrias[registro_id]))

\* (ifood_vendas - ifood_cancelamento) * 0.8
vendas_ifood_liquido(registro) ==
    ((registro.ifood_vendas - registro.ifood_cancelamento) * 8) \div 10

\* The closing cash amount taken for the cash received.
entrada_dinheiro_final(registro) == registro.valor_final_caixa

entrada_dinheiro(registro) ==
    registro.valor_final_caixa - registro.valor_inicial_caixa

vendas_dinheiro_final(registro_id) ==
    entrada_dinheiro(registros[registro_id]) + sangrias_dinheiro(registro_id)

total_vendas(registro_id) ==
    total_maquininhas(registros[registro_id])
    + vendas_ifood_liquido(registros[registro_id])
    + registros[registro_id].food99_vendas
    + vendas_dinheiro_final(registro_id)

\* data_obj - timedelta(days=7), as 'dd/mm/aaaa'.
data_base_str(registro) == AddDays(registro.data, 0 - 7)

\* The query for the register of the week before with no look at its owner
\* and status.
registro_base_qualquer(registro) ==
    {b \in DOMAIN registros : registros[b].data = data_base_str(registro)}

\* RegistroDiario.query.filter_by(user_id=registro.user_id, status="fechado",
\* data=data_base_str): the rows .first() may return.
registro_base(registro) ==
    {b \in DOMAIN registros :
        /\ registros[b].user_id = registro.user_id
        /\ registros[b].status = "fechado"
        /\ registros[b].data = data_base_str(registro)}

\* total_vendas_base of the register b of the week before.
total_vendas_base(b) ==
    LET registro_base_ == registros[b]
        total_maqs_base == SumCols(registro_base_, CamposMaquininhas)
        vendas_ifood_liq_base ==
            ((registro_base_.ifood_vendas - registro_base_.ifood_cancelamento) * 8) \div 10
        sangrias_dinheiro_base == SumDinheiro(sangrias[b], Len(sangrias[b]))
        entrada_dinheiro_base ==
            registro_base_.valor_final_caixa - registro_base_.valor_inicial_caixa
        vendas_dinheiro_final_base == entrada_dinheiro_base + sangrias_dinheiro_base
    IN  total_maqs_base + vendas_ifood_liq_base
        + registro_base_.food99_vendas + vendas_dinheiro_final_base

\* wow_percent: ((total_vendas - total_vendas_base) / total_vendas_base) * 100
\* when total_vendas_base is not 0, else 0.
wow_percent(total, base) ==
    IF base # 0 THEN <<(total - base) * 100, base>> ELSE <<0, 1>>

\* The dict wow for each row the query for the week before may return.
wow(registro_id) ==
    LET bases == registro_base(registros[registro_id]) IN
    IF bases = {} THEN {SemBase}
    ELSE { [base_data   |-> data_base_str(registros[registro_id]),
            base_vendas |-> <<total_vendas_base(b)>>,
            percent     |-> wow_percent(total_vendas(registro_id),
                                        total_vendas_base(b))] : b \in bases }

\* GET /resumo/<registro_id>
resumo_dia(c, registro_id) ==
    /\ UNCHANGED <<db, sessions, pend>>
    /\ IF ~IsAuthenticated(c) THEN resp' = Flash(MsgLogin)
       ELSE IF registro_id \notin DOMAIN registros THEN resp' = Flash("404")
       ELSE IF users[c].role # "admin" /\ registros[registro_id].user_id # c
       THEN resp' = Flash("redirect homepage")
       ELSE \E w \in wow(registro_id) :
               resp' = [Flash("resumo.html") EXCEPT
                           !.registro_id = registro_id,
                           !.total_vendas = total_vendas(registro_id),
                           !.wow = w]

\* ---------------------------------------------------------------- history
\* The values of the u parameter of historico: <<"all">> (or none),
\* <<"id", n>> for the text of the number n, <<"abc">> for another text.
FiltroInputs == {<<"all">>, <<"abc">>} \cup {<<"id", n>> : n \in UserIds}

\* The key of the sort on the 'dd/mm/aaaa' text itself.
chave_texto(data) == data[1] * 1000000 + data[2] * 10000 + data[3]

\* key=lambda r: datetime.strptime(r.data, '%d/%m/%Y')
chave_data(data) == toordinal(data)

\* The query of historico with no look at the role.
historico_query_todos(c, user_filter) ==
    {r \in DOMAIN registros : registros[r].status = "fechado"}

\* The query of historico: the closed registers, of the user alone when the
\* role is not admin, of the user the filter names when it is.
historico_query(c, user_filter) ==
    {r \in DOMAIN registros :
        /\ registros[r].status = "fechado"
        /\ users[c].role # "admin" => registros[r].user_id = c
        /\ (users[c].role = "admin" /\ user_filter[1] = "id")
              => registros[r].user_id = user_filter[2]}

\* The lists sorted(registros, key=..., reverse=True) may return: the rows
\* of q, latest date first; the sort is stable and the order in which the
\* query returns rows of one date is the database's.
registros_ordenados(q) ==
    {lista \in [1..Cardinality(q) -> q] :
        /\ \A i \in 1..Cardinality(q), j \in 1..Cardinality(q) :
              lista[i] = lista[j] => i = j
        /\ \A i \in 1..Cardinality(q), j \in 1..Cardinality(q) :
              i < j => chave_data(registros[lista[i]].data)
                          >= chave_data(registros[lista[j]].data)}

\* GET /historico
historico(c, user_filter) ==
    /\ UNCHANGED <<db, sessions, pend>>
    /\ IF ~IsAuthenticated(c) THEN resp' = Flash(MsgLogin)
       ELSE \E lista \in registros_ordenados(historico_query(c, user_filter)) :
               resp' = [Flash("historico.html") EXCEPT !.registros = lista]

\* ------------------------------------------------------------------ pages
\* GET /
homepage(c) ==
    /\ UNCHANGED <<db, sessions, pend>>
    /\ IF ~IsAuthenticated(c) THEN resp' = Flash(MsgLogin)
       ELSE IF registro_aberto(c) = {} THEN resp' = Flash("index.html")
       ELSE \E r \in registro_aberto(c) :
               resp' = [Flash("index.html") EXCEPT !.registro_id = r]

\* GET /abertura
abertura_get(c) ==
    /\ UNCHANGED <<db, sessions, pend>>
    /\ resp' = Flash(IF ~IsAuthenticated(c) THEN MsgLogin ELSE "abertura.html")

\* GET /fechamento/<registro_id> with no look at request.method: the view
\* goes on to the assignments and the commit of the POST, with no payload.
fechamento_sem_metodo(c, registro_id) == fechamento(c, registro_id, <<>>)

\* GET /fechamento/<registro_id>
fechamento_get(c, registro_id) ==
    /\ UNCHANGED <<db, sessions, pend>>
    /\ resp' =
         IF ~IsAuthenticated(c) THEN Flash(MsgLogin)
         ELSE IF registro_id \notin DOMAIN registros THEN Flash("404")
         ELSE IF registros[registro_id].user_id \notin DOMAIN users
         THEN Flash("500")
         ELSE IF registros[registro_id].user_id # c
         THEN Flash("Acesso nao autorizado.")
         ELSE [Flash("fechamento.html") EXCEPT !.registro_id = registro_id]

\* GET /admin/users
admin_users_get(c) ==
    /\ UNCHANGED <<db, sessions, pend>>
    /\ resp' = Flash(IF ~IsAdmin(c) THEN Denied(c) ELSE "admin_users.html")

\* ------------------------------------------------------------------ ledger
\* parse_ddmmyyyy followed by fmt_ddmmyyyy: the 'dd/mm/aaaa' of a raw date,
\* or "error" where one of the two raises.
data_fmt(raw) ==
    IF raw = <<>> THEN "error"
    ELSE IF raw[1] = "iso" /\ ValidDate(raw[4], raw[3], raw[2])
    THEN <<raw[4], raw[3], raw[2]>>
    ELSE IF raw[1] = "br" /\ ValidDate(raw[2], raw[3], raw[4])
    THEN <<raw[2], raw[3], raw[4]>>
    ELSE "error"

\* The forms POSTed to /admin/lancamentos; edit_id is 0 for an empty one.
LancamentoForms ==
    { [edit_id |-> 0, data |-> <<"iso", 2024, 1, 25>>, grupo |-> "MERCADO",
       descricao |-> "feira", valor |-> "5,00", forma_pagamento |-> "Dinheiro"],
      [edit_id |-> 1, data |-> <<"br", 1, 2, 2024>>, grupo |-> "BEBIDAS",
       descricao |-> "", valor |-> "R$ 10,00", forma_pagamento |-> "PIX"],
      [edit_id |-> 0, data |-> <<>>, grupo |-> "MERCADO",
       descricao |-> "feira", valor |-> "5,00", forma_pagamento |-> "Dinheiro"],
      [edit_id |-> 0, data |-> <<"iso", 2024, 1, 25>>, grupo |-> "MERCADO",
       descricao |-> "estorno", valor |-> "-5,00", forma_pagamento |-> "PIX"] }

\* The columns an admin_lancamentos POST writes.
LivroFinanceiro(form, user_id) ==
    [data            |-> data_fmt(form.data),
     tipo            |-> "compra",
     grupo           |-> Strip(form.grupo),
     descricao       |-> Strip(form.descricao),
     valor           |-> parse_brl_to_float(form.valor),
     forma_pagamento |-> Strip(form.forma_pagamento),
     user_id         |-> user_id]

\* POST /admin/lancamentos
admin_lancamentos(c, form) ==
    IF ~IsAdmin(c)
    THEN /\ resp' = Flash(Denied(c))
         /\ UNCHANGED <<db, sessions, pend>>
    ELSE IF data_fmt(form.data) = "error"
    THEN /\ resp' = Flash("500")
         /\ UNCHANGED <<db, sessions, pend>>
    ELSE IF form.edit_id # 0 /\ form.edit_id \notin DOMAIN livro
    THEN /\ resp' = Flash("404")
         /\ UNCHANGED <<db, sessions, pend>>
    ELSE IF form.edit_id # 0 /\ livro[form.edit_id].user_id # c
    THEN /\ resp' = Flash("Sem permissao para editar este lancamento.")
         /\ UNCHANGED <<db, sessions, pend>>
    ELSE IF form.edit_id # 0
    THEN /\ livro' = [livro EXCEPT ![form.edit_id] =
                         LivroFinanceiro(form, livro[form.edit_id].user_id)]
         /\ resp' = Flash("Lancamento atualizado.")
         /\ UNCHANGED <<users, registros, sangrias, sessions, pend>>
    ELSE /\ NextId(livro) \in LivroIds
         /\ livro' = PutRow(livro, NextId(livro), LivroFinanceiro(form, c))
         /\ resp' = Flash("Lancamento adicionado.")
         /\ UNCHANGED <<users, registros, sangrias, sessions, pend>>

\* The delete of a ledger entry that deletes the register of the same key
\* with it.
admin_lancamentos_delete_e_registro(c, item_id) ==
    IF ~IsAdmin(c)
    THEN /\ resp' = Flash(Denied(c))
         /\ UNCHANGED <<db, sessions, pend>>
    ELSE IF item_id \notin DOMAIN livro
    THEN /\ resp' = Flash("404")
         /\ UNCHANGED <<db, sessions, pend>>
    ELSE IF livro[item_id].user_id # c
    THEN /\ resp' = Flash("Sem permissao.")
         /\ UNCHANGED <<db, sessions, pend>>
    ELSE /\ livro' = DeleteRow(livro, item_id)
         /\ registros' = DeleteRow(registros, item_id)
         /\ resp' = Flash("Lancamento removido.")
         /\ UNCHANGED <<users, sangrias, sessions, pend>>

\* The delete of a ledger entry with no look at its owner.
admin_lancamentos_delete_sem_dono(c, item_id) ==
    IF ~IsAdmin(c)
    THEN /\ resp' = Flash(Denied(c))
         /\ UNCHANGED <<db, sessions, pend>>
    ELSE IF item_id \notin DOMAIN livro
    THEN /\ resp' = Flash("404")
         /\ UNCHANGED <<db, sessions, pend>>
    ELSE /\ livro' = DeleteRow(livro, item_id)
         /\ resp' = Flash("Lancamento removido.")
         /\ UNCHANGED <<users, registros, sangrias, sessions, pend>>

\* POST /admin/lancamentos/<item_id>/delete
admin_lancamentos_delete(c, item_id) ==
    IF ~IsAdmin(c)
    THEN /\ resp' = Flash(Denied(c))
         /\ UNCHANGED <<db, sessions, pend>>
    ELSE IF item_id \notin DOMAIN livro
    THEN /\ resp' = Flash("404")
         /\ UNCHANGED <<db, sessions, pend>>
    ELSE IF livro[item_id].user_id # c
    THEN /\ resp' = Flash("Sem permissao.")
         /\ UNCHANGED <<db, sessions, pend>>
    ELSE /\ livro' = DeleteRow(livro, item_id)
         /\ resp' = Flash("Lancamento removido.")
         /\ UNCHANGED <<users, registros, sangrias, sessions, pend>>

\* ---------------------------------------------------------- ledger reports
\* The raw dates of the start and end parameters of the two reports.
RangeInputs ==
    { <<>>, <<"bad">>, <<"iso", 2024, 1, 25>>, <<"br", 4, 2, 2024>>,
      <<"iso", 2024, 3, 1>> }

\* The values of the tipo and forma parameters of admin_lancamentos.
TipoInputs == {"", "MERCADO"}
FormaInputs == {"", "PIX"}

\* The raw date is one strptime (or datetime(y, m, d)) accepts.
DataValida(raw) == raw # <<>> /\ data_fmt(raw) # "error"

\* today - timedelta(days=today.weekday()): it keeps the time of day of now.
start_default == Mais(Agora, 0 - weekday(Agora.dia))

\* start_default + timedelta(days=6)
end_default == Mais(start_default, 6)

\* d = start; while d <= end: dias.append(d); d += timedelta(days=1)
RECURSIVE Dias(_, _)
Dias(start, end) ==
    IF Antes(end, start) THEN <<>>
    ELSE <<start>> \o Dias(Mais(start, 1), end)

\* [d.strftime('%d/%m/%Y') for d in dias]
dias_br(start, end) ==
    LET dias == Dias(start, end) IN [j \in 1..Len(dias) |-> dias[j].dia]

\* list.index(x), from 1; 0 where it raises ValueError.
IndexOf(seq, x) ==
    IF \E j \in 1..Len(seq) : seq[j] = x
    THEN CHOOSE j \in 1..Len(seq) :
            seq[j] = x /\ \A k \in 1..(j - 1) : seq[k] # x
    ELSE 0

\* (x.grupo or 'OUTROS').strip() or 'OUTROS'
GrupoDe(x) == IF Strip(x.grupo) = "" THEN "OUTROS" ELSE Strip(x.grupo)

\* (x.descricao or '-').strip() or '-'
DescDe(x) == IF Strip(x.descricao) = "" THEN "-" ELSE Strip(x.descricao)

\* The place of s.lower() among the lower-cased group names and descriptions
\* of the model, in the order of Python's strings.
LowerOrd(s) ==
    CASE s = "-"       -> 1
      [] s = "BEBIDAS" -> 2
      [] s = "estorno" -> 3
      [] s = "feira"   -> 4
      [] s = "MERCADO" -> 5
      [] s = "OUTROS"  -> 6

\* sorted(keys, key=str.lower)
RECURSIVE SortedLower(_)
SortedLower(S) ==
    IF S = {} THEN <<>>
    ELSE LET m == CHOOSE x \in S : \A y \in S : LowerOrd(x) <= LowerOrd(y)
         IN  <<m>> \o SortedLower(S \ {m})

\* sum(seq)
RECURSIVE SumSeq(_)
SumSeq(seq) == IF seq = <<>> THEN 0 ELSE seq[1] + SumSeq(Tail(seq))

\* The amounts of the ledger entries ids, summed.
RECURSIVE SomaValor(_)
SomaValor(ids) ==
    IF ids = {} THEN 0
    ELSE LET i == CHOOSE x \in ids : TRUE
         IN  livro[i].valor + SomaValor(ids \ {i})

\* grouped[grupo][desc]: one amount per day of dias, the sum of the entries
\* of itens with that group, description and day.
Vals(itens, dias, grupo, desc) ==
    [j \in 1..Len(dias) |->
        SomaValor({i \in itens : /\ GrupoDe(livro[i]) = grupo
                                 /\ DescDe(livro[i]) = desc
                                 /\ IndexOf(dias, livro[i].data) = j})]

\* The keys of grouped and of grouped[grupo]: the entries whose day is not
\* one of dias are skipped.
Grupos(itens, dias) ==
    {GrupoDe(livro[i]) : i \in {x \in itens : IndexOf(dias, livro[x].data) # 0}}

Descs(itens, dias, grupo) ==
    {DescDe(livro[i]) : i \in {x \in itens : /\ IndexOf(dias, livro[x].data) # 0
                                             /\ GrupoDe(livro[x]) = grupo}}

\* The rows of a group, sorted by description.
Rows(itens, dias, grupo) ==
    LET descs == SortedLower(Descs(itens, dias, grupo))
    IN  [k \in 1..Len(descs) |->
            LET vals == Vals(itens, dias, grupo, descs[k])
            IN  [desc |-> descs[k], vals |-> vals, total |-> SumSeq(vals)]]

\* group_cols / totals_cols: the rows added up day by day.
RECURSIVE SumRows(_, _)
SumRows(rows, j) ==
    IF rows = <<>> THEN 0 ELSE rows[1].vals[j] + SumRows(Tail(rows), j)

Cols(rows, dias) == [j \in 1..Len(dias) |-> SumRows(rows, j)]

\* One entry of pivot_groups / pivot_lanc.
PivotGroup(grupo, rows, dias) ==
    LET totals == Cols(rows, dias)
    IN  [grupo |-> grupo, rows |-> rows, totals |-> totals, total |-> SumSeq(totals)]

\* total_row <= 0: continue
RowKept(row) == row.total > 0

\* gtotal <= 0: continue
GroupKept(group) == group.total > 0

\* pivot_groups of admin_lancamentos: every group, every row.
pivot_groups(itens, dias) ==
    LET grupos == SortedLower(Grupos(itens, dias))
    IN  [k \in 1..Len(grupos) |->
            PivotGroup(grupos[k], Rows(itens, dias, grupos[k]), dias)]

\* pivot_lanc of admin_relatorio: the rows whose total is not positive are
\* left out of the group and of its totals, and so are the groups whose
\* total is not positive.
pivot_lanc(itens, dias) ==
    LET grupos == SortedLower(Grupos(itens, dias))
        todos  == [k \in 1..Len(grupos) |->
                      PivotGroup(grupos[k],
                                 SelectSeq(Rows(itens, dias, grupos[k]), RowKept),
                                 dias)]
    IN  SelectSeq(todos, GroupKept)

\* LivroFinanceiro.query.filter_by(user_id=).order_by(id.desc()), filtered
\* by the range and by the two selects: the ids, largest first.
RECURSIVE IdDesc(_)
IdDesc(ids) ==
    IF ids = {} THEN <<>>
    ELSE <<SetMax(ids)>> \o IdDesc(ids \ {SetMax(ids)})

Itens(c, dt_start, dt_end, tipo_sel, forma_sel) ==
    {i \in DOMAIN livro :
        /\ livro[i].user_id = c
        /\ AteOuIgual(dt_start, Datetime(livro[i].data, 0))
        /\ AteOuIgual(Datetime(livro[i].data, 0), dt_end)
        /\ (tipo_sel = "" \/ Strip(livro[i].grupo) = tipo_sel)
        /\ (forma_sel = "" \/ Strip(livro[i].forma_pagamento) = forma_sel)}

\* GET /admin/lancamentos
admin_lancamentos_get(c, start_qs, end_qs, tipoRaw, formaRaw) ==
    LET tipo_sel  == Strip(tipoRaw)
        forma_sel == Strip(formaRaw)
        s0 == IF start_qs # <<>> THEN Datetime(data_fmt(start_qs), 0) ELSE start_default
        e0 == IF end_qs # <<>> THEN Datetime(data_fmt(end_qs), 0) ELSE end_default
        dt_start == IF Antes(e0, s0) THEN e0 ELSE s0
        dt_end   == IF Antes(e0, s0) THEN s0 ELSE e0
        itens == Itens(c, dt_start, dt_end, tipo_sel, forma_sel)
    IN
    /\ UNCHANGED <<db, sessions, pend>>
    /\ resp' =
         IF ~IsAdmin(c) THEN Flash(Denied(c))
         ELSE IF \/ start_qs # <<>> /\ ~DataValida(start_qs)
                 \/ end_qs # <<>> /\ ~DataValida(end_qs)
         THEN Flash("500")
         ELSE LET dias == dias_br(dt_start, dt_end)
              IN  [Flash("admin_lancamentos.html") EXCEPT
                      !.itens = IdDesc(itens),
                      !.dias  = dias,
                      !.pivot = pivot_groups(itens, dias)]

\* ------------------------------------------------ card and PIX report
\* MAQS: the terminals in the order of the dict, each with its column per
\* payment method ("" for None).
MAQS ==
    << [nome |-> "Mercado Pago", debito |-> "mp_debito",
        credito |-> "mp_credito", pix |-> "mp_pix"],
       [nome |-> "Itau 1", debito |-> "itau1_debito",
        credito |-> "itau1_credito", pix |-> "itau1_pix"],
       [nome |-> "Itau 2", debito |-> "itau2_debito",
        credito |-> "itau2_credito", pix |-> "itau2_pix"],
       [nome |-> "Itau 3", debito |-> "itau3_debito",
        credito |-> "itau3_credito", pix |-> "itau3_pix"],
       [nome |-> "Valori", debito |-> "valori_debito",
        credito |-> "valori_credito", pix |-> "valori_pix"],
       [nome |-> "InfinitePay", debito |-> "infinitepay_debito",
        credito |-> "infinitepay_credito", pix |-> "infinitepay_pix"],
       [nome |-> "C6 (PIX CNPJ)", debito |-> "", credito |-> "",
        pix |-> "c6_pix"] >>

\* for meio in ("debito", "credito", "pix")
Meios == <<"debito", "credito", "pix">>

\* str.capitalize() on the three payment methods.
Capitalize(meio) ==
    CASE meio = "debito"  -> "Debito"
      [] meio = "credito" -> "Credito"
      [] meio = "pix"     -> "Pix"

\* The pairs of the two nested loops over MAQS and the payment methods, in
\* their order, without the ones whose column is None.
MaqMeios ==
    LET todos == [k \in 1..(3 * Len(MAQS)) |->
                     LET maq  == MAQS[((k - 1) \div 3) + 1]
                         meio == Meios[((k - 1) % 3) + 1]
                     IN  [nome |-> maq.nome, meio |-> meio, campo |-> maq[meio]]]
        TemCampo(p) == p.campo # ""
    IN  SelectSeq(todos, TemCampo)

\* RegistroDiario.query.filter(status == "fechado", data.in_(dias_br)).all()
regs(dias) ==
    {r \in DOMAIN registros :
        /\ registros[r].status = "fechado"
        /\ IndexOf(dias, registros[r].data) # 0}

\* The registers of the query taken for every day, whatever their date.
regs_por_dia_sem_data(rs, dbr) == rs

\* regs_por_dia[dbr]: the registers of the query with that date.
regs_por_dia(rs, dbr) == {r \in rs : registros[r].data = dbr}

\* soma_campos(lista_reg, campo)
RECURSIVE soma_campos(_, _)
soma_campos(lista_reg, campo) ==
    IF campo = "" \/ lista_reg = {} THEN 0
    ELSE LET r == CHOOSE x \in lista_reg : TRUE
         IN  registros[r][campo] + soma_campos(lista_reg \ {r}, campo)

\* linhas_maqs: one line per terminal and payment method, one value per day.
linhas_maqs(rs, dias) ==
    LET por_dia == [i \in 1..Len(dias) |-> regs_por_dia(rs, dias[i])]
    IN  [k \in 1..Len(MaqMeios) |->
            LET col == [i \in 1..Len(dias) |->
                           soma_campos(por_dia[i], MaqMeios[k].campo)]
            IN  [label   |-> <<MaqMeios[k].nome, Capitalize(MaqMeios[k].meio)>>,
                 valores |-> col,
                 total   |-> SumSeq(col)]]

\* tot_por_meio[meio][i] += v, for the value v of day i on each line of the
\* payment method meio, from [0.0] * len(dias).
RECURSIVE AcumulaMeio(_, _, _)
AcumulaMeio(lista_reg, meio, k) ==
    IF k = 0 THEN 0
    ELSE AcumulaMeio(lista_reg, meio, k - 1)
         + (IF MaqMeios[k].meio = meio
            THEN soma_campos(lista_reg, MaqMeios[k].campo) ELSE 0)

tot_por_meio(rs, dias) ==
    [meio \in {"debito", "credito", "pix"} |->
        [i \in 1..Len(dias) |->
            AcumulaMeio(regs_por_dia(rs, dias[i]), meio, Len(MaqMeios))]]

\* ACQ_DISPLAY: the acquirer of a terminal.
ACQ_DISPLAY(nome) ==
    IF nome \in {"Itau 1", "Itau 2", "Itau 3"} THEN "Itau" ELSE nome

\* FEE_PERCENTS, in hundredths of a percent.
FEE_PERCENTS(brand, meio) ==
    CASE brand = "Mercado Pago" /\ meio = "debito"  -> 199
      [] brand = "Mercado Pago" /\ meio = "credito" -> 498
      [] brand = "Mercado Pago" /\ meio = "pix"     -> 49
      [] brand = "Itau" /\ meio = "debito"          -> 97
      [] brand = "Itau" /\ meio = "credito"         -> 270
      [] brand = "Valori" /\ meio = "debito"        -> 97
      [] brand = "Valori" /\ meio = "credito"       -> 270
      [] brand = "InfinitePay" /\ meio = "debito"   -> 144
      [] brand = "InfinitePay" /\ meio = "credito"  -> 289
      [] OTHER                                      -> 0

\* The keys of brand_raw and of its dicts, in their order.
BrandMeios ==
    << <<"Mercado Pago", "debito">>, <<"Mercado Pago", "credito">>,
       <<"Mercado Pago", "pix">>,
       <<"Itau", "debito">>, <<"Itau", "credito">>, <<"Itau", "pix">>,
       <<"Valori", "debito">>, <<"Valori", "credito">>, <<"Valori", "pix">>,
       <<"InfinitePay", "debito">>, <<"InfinitePay", "credito">>,
       <<"InfinitePay", "pix">>,
       <<"C6 (PIX CNPJ)", "pix">> >>

\* The columns added to brand_raw[brand][meio] for each register.
CamposDe(brand, meio) ==
    {MaqMeios[k].campo : k \in {j \in 1..Len(MaqMeios) :
                                   /\ ACQ_DISPLAY(MaqMeios[j].nome) = brand
                                   /\ MaqMeios[j].meio = meio}}

\* brand_raw[brand][meio] after the loop over regs.
RECURSIVE brand_raw(_, _, _)
brand_raw(rs, brand, meio) ==
    IF rs = {} THEN 0
    ELSE LET r == CHOOSE x \in rs : TRUE
         IN  SumCols(registros[r], CamposDe(brand, meio))
             + brand_raw(rs \ {r}, brand, meio)

\* tax_rows, up to the amount and the rate of each row: taxa, real and
\* total_brand_net are floats rounded to two places, which the model does
\* not follow.
tax_rows(rs) ==
    [k \in 1..Len(BrandMeios) |->
        [brand   |-> BrandMeios[k][1],
         meio    |-> BrandMeios[k][2],
         soma    |-> brand_raw(rs, BrandMeios[k][1], BrandMeios[k][2]),
         percent |-> FEE_PERCENTS(BrandMeios[k][1], BrandMeios[k][2])]]

\* if (end - start).days > 31: end = start + timedelta(days=31)
Limite(start, end) ==
    IF DiasEntre(start, end) > 31 THEN Mais(start, 31) ELSE end

\* GET /admin/relatorio
admin_relatorio(c, start_qs, end_qs) ==
    LET s0 == IF DataValida(start_qs) THEN Datetime(data_fmt(start_qs), 0)
              ELSE start_default
        e0 == IF DataValida(end_qs) THEN Datetime(data_fmt(end_qs), 0)
              ELSE end_default
        start == IF Antes(e0, s0) THEN e0 ELSE s0
        end1  == IF Antes(e0, s0) THEN s0 ELSE e0
        end   == Limite(start, end1)
        lanca == DOMAIN livro
    IN
    /\ UNCHANGED <<db, sessions, pend>>
    /\ resp' =
         IF ~IsAdmin(c) THEN Flash(Denied(c))
         ELSE LET dias == dias_br(start, end)
                  rs   == regs(dias)
              IN  [Flash("admin_relatorio_semana.html") EXCEPT
                      !.dias         = dias,
                      !.linhas_maqs  = linhas_maqs(rs, dias),
                      !.tot_por_meio = tot_por_meio(rs, dias),
                      !.tax_rows     = tax_rows(rs),
                      !.pivot        = pivot_lanc(lanca, dias)]

\* ---------------------------------------------------------- specification
Init ==
    /\ users = <<>>
    /\ registros = <<>>
    /\ sangrias = [r \in RegistroIds |-> <<>>]
    /\ livro = <<>>
    /\ sessions = {}
    /\ pend = <<>>
    /\ resp = Flash("none")

ReqInitDb == init_db_command
ReqLogin == \E f \in LoginForms : login(f.username, f.password)
ReqLogout == \E c \in Clients : logout(c)
ReqAdminUsers ==
    \E c \in Clients, f \in UserForms : admin_users(c, f.username, f.password, f.role)
ReqAdminUsersReset ==
    \E c \in Clients, i \in UserIds, p \in PasswordInputs : admin_users_reset(c, i, p)
ReqAdminUsersDelete ==
    \E c \in Clients, i \in UserIds : admin_users_delete(c, i)

ReqAbertura == \E c \in Clients, in \in AberturaInputs : abertura(c, in)
ReqFechamento ==
    \E c \in Clients, r \in RegistroIds, d \in FechamentoInputs : fechamento(c, r, d)
ReqAdminDeleteRegistro ==
    \E c \in Clients, r \in RegistroIds : admin_delete_registro(c, r)

ReqResumoDia == \E c \in Clients, r \in RegistroIds : resumo_dia(c, r)
ReqAdminLancamentos ==
    \E c \in Clients, f \in LancamentoForms : admin_lancamentos(c, f)
ReqAdminLancamentosDelete ==
    \E c \in Clients, i \in LivroIds : admin_lancamentos_delete(c, i)
ReqAdminRelatorio ==
    \E c \in Clients, s \in RangeInputs, e \in RangeInputs : admin_relatorio(c, s, e)
ReqAdminLancamentosGet ==
    \E c \in Clients, s \in RangeInputs, e \in RangeInputs,
       t \in TipoInputs, f \in FormaInputs : admin_lancamentos_get(c, s, e, t, f)
ReqHistorico == \E c \in Clients, u \in FiltroInputs : historico(c, u)
ReqHomepage == \E c \in Clients : homepage(c)
ReqAberturaGet == \E c \in Clients : abertura_get(c)
ReqFechamentoGet == \E c \in Clients, r \in RegistroIds : fechamento_get(c, r)
ReqAdminUsersGet == \E c \in Clients : admin_users_get(c)
AberturaQuery ==
    \E c \in Clients, in \in AberturaInputs, slot \in 1..MaxPend :
        abertura_query(c, in, slot)
AberturaInsert == \E slot \in 1..MaxPend : abertura_insert(slot)

\* The handlers of the user accounts.
NextUsers ==
    \/ ReqInitDb
    \/ ReqLogin
    \/ ReqLogout
    \/ ReqAdminUsers
    \/ ReqAdminUsersReset
    \/ ReqAdminUsersDelete

SpecUsers == Init /\ [][NextUsers]_vars

\* The handlers that write registers, with the ones that make users, log
\* them in and remove them, from the empty database.
NextCaixa ==
    \/ ReqInitDb
    \/ ReqLogin
    \/ ReqAdminUsers
    \/ ReqAdminUsersDelete
    \/ ReqAbertura
    \/ ReqFechamento
    \/ ReqAdminDeleteRegistro

SpecCaixa == Init /\ [][NextCaixa]_vars

\* A database with the administrator made by /init-db and a cashier the
\* administrator created, both logged in, and no register yet.
InitRegistro ==
    /\ users = (1 :> [username |-> "admin",
                      password_hash |-> generate_password_hash("admin123"),
                      role |-> "admin"])
             @@ (2 :> [username |-> "ana",
                       password_hash |-> generate_password_hash("s1"),
                       role |-> "caixa"])
    /\ registros = <<>>
    /\ sangrias = [r \in RegistroIds |-> <<>>]
    /\ livro = <<>>
    /\ sessions = {1, 2}
    /\ pend = <<>>
    /\ resp = Flash("none")

\* The handlers of the registers.
NextRegistro ==
    \/ ReqAbertura
    \/ ReqFechamento
    \/ ReqAdminDeleteRegistro
    \/ ReqResumoDia

SpecRegistro == InitRegistro /\ [][NextRegistro]_vars

\* The abertura POST as its two database round trips, which the requests of
\* the server's threads or workers interleave (no lock is taken).
NextRace ==
    \/ ReqInitDb
    \/ ReqLogin
    \/ ReqLogout
    \/ AberturaQuery
    \/ AberturaInsert
    \/ ReqFechamento

SpecRace == Init /\ [][NextRace]_vars

\* A database in use: the administrator made by /init-db, a cashier the
\* administrator created, a register the cashier opened and closed with two
\* withdrawals, and a ledger entry of the administrator; nobody is logged in.
InitAdmin ==
    /\ users = (1 :> [username |-> "admin",
                      password_hash |-> generate_password_hash("admin123"),
                      role |-> "admin"])
             @@ (2 :> [username |-> "ana",
                       password_hash |-> generate_password_hash("s1"),
                       role |-> "caixa"])
    /\ registros = (1 :> Fechado(RegistroDiario(Hoje, 2, 5), DadosComSangrias))
    /\ sangrias = [r \in RegistroIds |->
                      IF r = 1 THEN NovasSangrias(DadosComSangrias) ELSE <<>>]
    /\ livro = (1 :> LivroFinanceiro(
                        [edit_id |-> 0, data |-> <<"iso", 2024, 1, 25>>,
                         grupo |-> "MERCADO", descricao |-> "feira",
                         valor |-> "5,00", forma_pagamento |-> "Dinheiro"], 1))
    /\ sessions = {}
    /\ pend = <<>>
    /\ resp = Flash("none")

\* The handlers behind @require_admin, with login and logout.
NextAdmin ==
    \/ ReqLogin
    \/ ReqLogout
    \/ ReqAdminUsers
    \/ ReqAdminUsersReset
    \/ ReqAdminUsersDelete
    \/ ReqAdminLancamentos
    \/ ReqAdminLancamentosDelete
    \/ ReqAdminDeleteRegistro
    \/ ReqAdminRelatorio

SpecAdmin == InitAdmin /\ [][NextAdmin]_vars

\* The database of InitRegistro a week after the cashier opened a register
\* with an empty drawer on 25/01/2024 and closed it with an empty payload.
InitResumo ==
    /\ users = (1 :> [username |-> "admin",
                      password_hash |-> generate_password_hash("admin123"),
                      role |-> "admin"])
             @@ (2 :> [username |-> "ana",
                       password_hash |-> generate_password_hash("s1"),
                       role |-> "caixa"])
    /\ registros = (1 :> Fechado(RegistroDiario(<<25, 1, 2024>>, 2, 0), <<>>))
    /\ sangrias = [r \in RegistroIds |-> <<>>]
    /\ livro = <<>>
    /\ sessions = {1, 2}
    /\ pend = <<>>
    /\ resp = Flash("none")

SpecResumo == InitResumo /\ [][NextRegistro]_vars

\* The handlers of the registers with the pages that list and summarise
\* them.
NextConsulta ==
    \/ ReqAbertura
    \/ ReqFechamento
    \/ ReqAdminDeleteRegistro
    \/ ReqResumoDia
    \/ ReqHistorico

SpecConsulta == InitRegistro /\ [][NextConsulta]_vars

\* A database with the administrator made by /init-db and a second
\* administrator the first created, both logged in, and an empty ledger.
InitLivro ==
    /\ users = (1 :> [username |-> "admin",
                      password_hash |-> generate_password_hash("admin123"),
                      role |-> "admin"])
             @@ (2 :> [username |-> "ana",
                       password_hash |-> generate_password_hash("s1"),
                       role |-> "admin"])
    /\ registros = <<>>
    /\ sangrias = [r \in RegistroIds |-> <<>>]
    /\ livro = <<>>
    /\ sessions = {1, 2}
    /\ pend = <<>>
    /\ resp = Flash("none")

\* The handlers of the ledger and its two reports.
NextLivro ==
    \/ ReqAdminLancamentos
    \/ ReqAdminLancamentosDelete
    \/ ReqAdminLancamentosGet
    \/ ReqAdminRelatorio

SpecLivro == InitLivro /\ [][NextLivro]_vars

\* Every handler that writes, from the database in use of InitAdmin.
NextEscrita ==
    \/ ReqLogin
    \/ ReqAdminUsers
    \/ ReqAdminUsersDelete
    \/ ReqAbertura
    \/ ReqFechamento
    \/ ReqAdminDeleteRegistro
    \/ ReqAdminLancamentos
    \/ ReqAdminLancamentosDelete

SpecEscrita == InitAdmin /\ [][NextEscrita]_vars

\* Every page and report, with the logins and the writes that change what
\* they show, from the database in use of InitAdmin.
NextLeitura ==
    \/ ReqLogin
    \/ ReqLogout
    \/ ReqFechamento
    \/ ReqAdminLancamentosDelete
    \/ ReqHomepage
    \/ ReqAberturaGet
    \/ ReqFechamentoGet
    \/ ReqResumoDia
    \/ ReqHistorico
    \/ ReqAdminUsersGet
    \/ ReqAdminLancamentosGet
    \/ ReqAdminRelatorio

SpecLeitura == InitAdmin /\ [][NextLeitura]_vars

\* The handlers of the registers with the report of their card and PIX
\* figures.
NextRelatorio ==
    \/ ReqAbertura
    \/ ReqFechamento
    \/ ReqAdminDeleteRegistro
    \/ ReqAdminRelatorio

SpecRelatorio == InitRegistro /\ [][NextRelatorio]_vars

\* ------------------------------------------------------------------ claims
\* The open registers user u owns.
AbertosDe(u) ==
    {r \in DOMAIN registros :
        registros[r].user_id = u /\ registros[r].status = "aberto"}

\* C1: with every request atomic, no user ever owns more than one register
\* with status 'aberto', and no step adds a register for a user who has an
\* open one: an abertura POST of such a user creates none.
C1_AtMostOneOpenAtomic ==
    /\ [](\A u \in UserIds : Cardinality(AbertosDe(u)) <= 1)
    /\ [][\A r \in DOMAIN registros' \ DOMAIN registros :
             AbertosDe(registros'[r].user_id) = {}]_vars

\* A user with an open register was refused a second one.
C1_Witness ==
    /\ resp.msg = MsgJaAberto
    /\ \E u \in sessions : Cardinality(AbertosDe(u)) = 1

C3_NoTwoOpenInterleaved ==
    \A r1 \in DOMAIN registros, r2 \in DOMAIN registros :
        (/\ registros[r1].status = "aberto"
         /\ registros[r2].status = "aberto"
         /\ registros[r1].user_id = registros[r2].user_id) => r1 = r2

\* The opening amount an abertura POST submits: the JSON's valor_inicial (0
\* when it has none); in a form the sum of the denomination totals, or the
\* hidden valor_inicial when that sum is not positive.
C4_Submitted(in) ==
    IF in.json
    THEN IF "valor_inicial" \in DOMAIN in.body THEN in.body.valor_inicial ELSE 0
    ELSE LET soma == SomaDenoms(in.body, Len(DenomKeys))
         IN  IF soma > 0 THEN soma
             ELSE IF "valor_inicial" \in DOMAIN in.body
             THEN parse_brl_to_float(in.body.valor_inicial)
             ELSE 0

\* C4: a successful abertura POST (JSON or form) adds exactly one register,
\* owned by the requesting user, with status 'aberto', the submitted opening
\* amount, every other monetary and order-count column 0 and no withdrawals,
\* and leaves every existing register as it was.
C4_AberturaAddsOneOpenRegister ==
    [][\A c \in Clients, in \in AberturaInputs :
         (resp'.msg = MsgAberto /\ abertura(c, in)) =>
            \E r \in DOMAIN registros' \ DOMAIN registros :
               /\ DOMAIN registros' = DOMAIN registros \cup {r}
               /\ registros'[r].user_id = c
               /\ registros'[r].status = "aberto"
               /\ registros'[r].valor_inicial_caixa = C4_Submitted(in)
               /\ \A col \in CamposFechamento : registros'[r][col] = 0
               /\ sangrias'[r] = <<>>
               /\ \A q \in DOMAIN registros : registros'[q] = registros[q]]_vars

\* A register was just opened with an amount of 5 beside a closed register
\* that has withdrawals.
C4_Witness ==
    /\ resp.msg = MsgAberto
    /\ \E r \in DOMAIN registros, q \in DOMAIN registros :
          /\ registros[r].status = "aberto"
          /\ registros[r].valor_inicial_caixa = 5
          /\ sangrias[r] = <<>>
          /\ registros[q].status = "fechado"
          /\ sangrias[q] # <<>>

\* C5: after a fechamento POST the register's status is 'fechado' and every
\* financial and order-count column equals the payload's value, or 0 when
\* the payload omits it; none keeps the value it had.
C5_FechamentoWritesEveryField ==
    [][\A c \in Clients, r \in RegistroIds, d \in FechamentoInputs :
         (resp'.msg = MsgFechado /\ fechamento(c, r, d)) =>
            /\ registros[r].user_id = c
            /\ registros'[r].status = "fechado"
            /\ \A col \in CamposFechamento :
                  registros'[r][col] = (IF col \in DOMAIN d THEN d[col] ELSE 0)]_vars

\* A register closed with the terminal figures of DadosCartoes.
C5_Witness ==
    /\ resp.msg = MsgFechado
    /\ \E r \in DOMAIN registros :
          /\ registros[r].status = "fechado"
          /\ registros[r].mp_debito = 5
          /\ registros[r].itau1_pix = 10
          /\ registros[r].ifood_vendas = 0

\* The withdrawals a fechamento payload lists.
C6_Lista(d) == IF "sangrias" \in DOMAIN d THEN d.sangrias ELSE <<>>

\* Field k of a listed withdrawal, or the default of an omitted one.
C6_Campo(s, k, default) == IF k \in DOMAIN s THEN s[k] ELSE default

\* C6: after a fechamento POST on register r the withdrawals of r are
\* exactly the payload's list (none when it lists none), and the withdrawals
\* of every other register are as they were.
C6_FechamentoReplacesSangrias ==
    [][\A c \in Clients, r \in RegistroIds, d \in FechamentoInputs :
         (resp'.msg = MsgFechado /\ fechamento(c, r, d)) =>
            /\ Len(sangrias'[r]) = Len(C6_Lista(d))
            /\ \A i \in 1..Len(C6_Lista(d)) :
                  /\ sangrias'[r][i].descricao = C6_Campo(C6_Lista(d)[i], "descricao", "")
                  /\ sangrias'[r][i].valor = C6_Campo(C6_Lista(d)[i], "valor", 0)
                  /\ sangrias'[r][i].forma_pagamento
                        = C6_Campo(C6_Lista(d)[i], "forma_pagamento", "")
            /\ \A q \in RegistroIds \ {r} : sangrias'[q] = sangrias[q]]_vars

\* A fechamento just ran; one closed register has the two withdrawals of
\* its payload and another closed register has none.
C6_Witness ==
    /\ resp.msg = MsgFechado
    /\ \E r \in DOMAIN registros, q \in DOMAIN registros :
          /\ registros[r].status = "fechado"
          /\ Len(sangrias[r]) = 2
          /\ registros[q].status = "fechado"
          /\ sangrias[q] = <<>>

\* The card and PIX figures of the terminals, summed.
C7_Cartoes(reg) ==
    reg.mp_debito + reg.mp_credito + reg.mp_pix
    + reg.itau1_debito + reg.itau1_credito + reg.itau1_pix
    + reg.itau2_debito + reg.itau2_credito + reg.itau2_pix
    + reg.itau3_debito + reg.itau3_credito + reg.itau3_pix
    + reg.valori_debito + reg.valori_credito + reg.valori_pix
    + reg.infinitepay_debito + reg.infinitepay_credito + reg.infinitepay_pix
    + reg.c6_pix

\* resumo_dia just reported on register r, which is closed with no
\* delivery-platform sales and no withdrawals.
C7_Case(r) ==
    /\ resp.msg = "resumo.html"
    /\ resp.registro_id = r
    /\ r \in DOMAIN registros
    /\ registros[r].status = "fechado"
    /\ registros[r].ifood_vendas = 0
    /\ registros[r].ifood_cancelamento = 0
    /\ registros[r].food99_vendas = 0
    /\ sangrias[r] = <<>>

\* C7, as stated: total_vendas is the card/PIX sum plus the closing cash
\* amount, whatever the opening amount.
C7_TotalIsCardPlusCash ==
    \A r \in RegistroIds :
        C7_Case(r) =>
            resp.total_vendas
                = C7_Cartoes(registros[r]) + registros[r].valor_final_caixa

\* C7, amended: total_vendas is the card/PIX sum plus the closing cash
\* amount less the opening amount.
C7_TotalIsCardPlusCashLessOpening ==
    \A r \in RegistroIds :
        C7_Case(r) =>
            resp.total_vendas
                = C7_Cartoes(registros[r]) + registros[r].valor_final_caixa
                  - registros[r].valor_inicial_caixa

\* The summary of a register opened with 5 and closed with 20 in cards and
\* 10 in cash.
C7_Witness ==
    \E r \in RegistroIds :
        /\ C7_Case(r)
        /\ registros[r].valor_inicial_caixa = 5
        /\ C7_Cartoes(registros[r]) = 20
        /\ registros[r].valor_final_caixa = 10

\* Client c is not logged in, or is logged in with a role other than admin.
C8_NaoAdmin(c) == c \notin DOMAIN users \/ users[c].role # "admin"

\* A request of client c to one of the admin operations.
C8_AdminRequest(c) ==
    \/ \E f \in UserForms : admin_users(c, f.username, f.password, f.role)
    \/ \E i \in UserIds, p \in PasswordInputs : admin_users_reset(c, i, p)
    \/ \E i \in UserIds : admin_users_delete(c, i)
    \/ \E f \in LancamentoForms : admin_lancamentos(c, f)
    \/ \E i \in LivroIds : admin_lancamentos_delete(c, i)
    \/ \E r \in RegistroIds : admin_delete_registro(c, r)
    \/ \E s \in RangeInputs, e \in RangeInputs : admin_relatorio(c, s, e)

\* C8: an admin operation (create user, reset password, delete user, create,
\* edit or delete a ledger entry, delete a register, range report) asked by
\* a client who is not logged in or whose role is not 'admin' leaves users,
\* registers, withdrawals and ledger entries unchanged.
C8_NonAdminChangesNothing ==
    [][\A c \in Clients :
         (C8_NaoAdmin(c) /\ C8_AdminRequest(c)) => db' = db]_vars

\* A logged-in cashier was refused an admin operation while a closed
\* register, its withdrawals and a ledger entry exist.
C8_Witness ==
    /\ resp.msg = MsgAdmin
    /\ \E c \in sessions : c \in DOMAIN users /\ users[c].role = "caixa"
    /\ \E r \in DOMAIN registros :
          registros[r].status = "fechado" /\ sangrias[r] # <<>>
    /\ livro # <<>>

\* C9: no two users have the same username.
C9_UniqueUsernames ==
    \A i \in DOMAIN users, j \in DOMAIN users :
        users[i].username = users[j].username => i = j

\* An admin_users POST with a taken username was refused, with two users
\* in the table.
C9_Witness ==
    /\ resp.msg = MsgDuplicado
    /\ Cardinality(DOMAIN users) = 2

\* The users of table us whose role is admin.
C10_Admins(us) == {i \in DOMAIN us : us[i].role = "admin"}

\* C10: once an admin exists, an admin exists after every step; a delete
\* never removes the account of the client who asks for it, nor the only
\* admin.
C10_AdminRemains ==
    [][/\ C10_Admins(users) # {} => C10_Admins(users') # {}
       /\ \A c \in Clients, i \in DOMAIN users \ DOMAIN users' :
             admin_users_delete(c, i) =>
                /\ i # c
                /\ ~(users[i].role = "admin"
                      /\ Cardinality(C10_Admins(users)) = 1)]_vars

\* An admin was refused the delete of their own account, and another admin
\* was deleted before: one admin is left.
C10_Witness ==
    /\ resp.msg = MsgSiMesmo
    /\ Cardinality(C10_Admins(users)) = 1
    /\ \E i \in UserIds : i \notin DOMAIN users

\* The text of a form field is empty once stripped.
C11_Vazio(s) == s = "" \/ s = " "

\* The username a form asks for, stripped.
C11_Nome(s) == IF s = " ana " THEN "ana" ELSE s

\* A request of client c that one of the validation or permission checks
\* rejects: admin_users with an empty username or password or a taken
\* username, admin_users_delete of the requester or of the only admin,
\* abertura with a register open, fechamento on a register of another user,
\* admin_delete_registro on a register that is not closed, edit or delete
\* of a ledger entry of another user.
C11_Rejeitado(c) ==
    \/ \E f \in UserForms :
          /\ \/ C11_Vazio(f.username)
             \/ C11_Vazio(f.password)
             \/ \E i \in DOMAIN users : users[i].username = C11_Nome(f.username)
          /\ admin_users(c, f.username, f.password, f.role)
    \/ \E i \in DOMAIN users :
          /\ \/ i = c
             \/ users[i].role = "admin"
                /\ \A j \in DOMAIN users : users[j].role = "admin" => j = i
          /\ admin_users_delete(c, i)
    \/ \E in \in AberturaInputs : AbertosDe(c) # {} /\ abertura(c, in)
    \/ \E r \in DOMAIN registros, d \in FechamentoInputs :
          registros[r].user_id # c /\ fechamento(c, r, d)
    \/ \E r \in DOMAIN registros :
          registros[r].status # "fechado" /\ admin_delete_registro(c, r)
    \/ \E f \in LancamentoForms :
          /\ f.edit_id \in DOMAIN livro
          /\ livro[f.edit_id].user_id # c
          /\ admin_lancamentos(c, f)
    \/ \E i \in DOMAIN livro :
          livro[i].user_id # c /\ admin_lancamentos_delete(c, i)

\* C11: a request that a validation or permission check rejects leaves
\* users, registers, withdrawals and ledger entries exactly as they were.
C11_RejectedChangesNothing ==
    [][db' = db \/ \A c \in Clients : ~C11_Rejeitado(c)]_vars

\* An administrator was refused the delete of a ledger entry of another
\* administrator, and the entry is still there.
C11_Witness ==
    /\ resp.msg = "Sem permissao."
    /\ \E i \in DOMAIN livro, c \in sessions :
          c \in DOMAIN users /\ users[c].role = "admin" /\ livro[i].user_id # c

\* The commit of admin_users_delete(c, i) fails: the delete goes through
\* every check of the handler and user i owns a register, whose user_id the
\* flush sets to NULL against the column's NOT NULL.
C12_CommitFails(c, i) ==
    /\ c \in DOMAIN users
    /\ users[c].role = "admin"
    /\ i \in DOMAIN users
    /\ i # c
    /\ \E r \in DOMAIN registros : registros[r].user_id = i

\* C12: when the commit of a state-changing request fails, the persistent
\* state is the one before the request and the user gets an error message,
\* not an unhandled failure (HTTP 500).
C12_CommitFailureHandled ==
    [][\A c \in Clients, i \in UserIds :
         (C12_CommitFails(c, i) /\ admin_users_delete(c, i)) =>
            (db' = db /\ resp'.msg # "500")]_vars

\* Day a is day b or a later day of the calendar.
C13_NaoAntes(a, b) ==
    \/ a[3] > b[3]
    \/ a[3] = b[3] /\ a[2] > b[2]
    \/ a[3] = b[3] /\ a[2] = b[2] /\ a[1] >= b[1]

\* C13: the registers historico lists are in the order of their calendar
\* dates, latest first, whatever the order of their 'dd/mm/aaaa' texts.
C13_HistoricoByCalendarDate ==
    resp.msg = "historico.html" =>
        \A i \in 1..Len(resp.registros), j \in 1..Len(resp.registros) :
            i < j => C13_NaoAntes(registros[resp.registros[i]].data,
                                  registros[resp.registros[j]].data)

\* historico listed the register of 01/02/2024 before the one of
\* 25/01/2024, whose text is the greater of the two.
C13_Witness ==
    /\ resp.msg = "historico.html"
    /\ Len(resp.registros) = 2
    /\ registros[resp.registros[1]].data = <<1, 2, 2024>>
    /\ registros[resp.registros[2]].data = <<25, 1, 2024>>

\* The closed registers, and the closed registers user u owns.
C14_Fechados == {r \in DOMAIN registros : registros[r].status = "fechado"}

C14_FechadosDe(u) == {r \in C14_Fechados : registros[r].user_id = u}

\* The registers a historico page lists.
C14_Listados(page) == {page.registros[k] : k \in 1..Len(page.registros)}

\* C14: historico lists to a user whose role is not admin the closed
\* registers that user owns and no other, whatever the u filter; to an admin
\* the closed registers of the user the filter selects, or of all users;
\* resumo_dia shows a register to its owner or to an admin, to nobody else.
C14_OwnRegistersOnly ==
    [][\A c \in Clients :
         /\ \A u \in FiltroInputs :
               (resp'.msg = "historico.html" /\ historico(c, u)) =>
                  C14_Listados(resp') =
                     IF users[c].role # "admin" THEN C14_FechadosDe(c)
                     ELSE IF u[1] = "id" THEN C14_FechadosDe(u[2])
                     ELSE C14_Fechados
         /\ \A r \in RegistroIds :
               (resp'.msg = "resumo.html" /\ resumo_dia(c, r)) =>
                  (registros[r].user_id = c \/ users[c].role = "admin")]_vars

\* A cashier who asked for the summary of the administrator's closed
\* register was sent to the home page.
C14_Witness ==
    /\ resp.msg = "redirect homepage"
    /\ \E r \in C14_Fechados, c \in sessions :
          /\ c \in DOMAIN users
          /\ users[c].role # "admin"
          /\ registros[r].user_id # c
          /\ C14_FechadosDe(c) # {}

\* C15: every withdrawal belongs to a register that exists; a step removes
\* a register only when it is closed, and no withdrawal of a removed
\* register is left.
C15_SangriasFollowRegister ==
    /\ [](\A r \in RegistroIds : r \notin DOMAIN registros => sangrias[r] = <<>>)
    /\ [][\A r \in DOMAIN registros \ DOMAIN registros' :
             /\ registros[r].status = "fechado"
             /\ sangrias'[r] = <<>>]_vars

\* A closed register was just deleted by the administrator; the closed
\* register that is left keeps its two withdrawals.
C15_Witness ==
    /\ resp.msg = "Fechamento excluido com sucesso."
    /\ \E r \in RegistroIds : r \notin DOMAIN registros
    /\ \E q \in DOMAIN registros :
          registros[q].status = "fechado" /\ Len(sangrias[q]) = 2

\* The closed registers of the owner of r dated 7 days before r.
C16_Bases(r) ==
    {b \in DOMAIN registros :
        /\ registros[b].status = "fechado"
        /\ registros[b].user_id = registros[r].user_id
        /\ toordinal(registros[b].data) + 7 = toordinal(registros[r].data)}

\* The fraction p is 100 * (total - base) / base.
C16_Percent(p, total, base) == p[1] * base = 100 * (total - base) * p[2]

\* C16: the week-over-week percent resumo_dia reports for register R is
\* 100 * (total(R) - total(B)) / total(B) for a closed register B of R's
\* owner dated 7 days before R, with the one total-sales formula for both; it
\* is 0 when there is no such B (an open register or a register of another
\* user of that date is none) or when total(B) is 0.
C16_WeekOverWeek ==
    \A r \in RegistroIds :
        (resp.msg = "resumo.html" /\ resp.registro_id = r) =>
            /\ resp.wow.percent[2] # 0
            /\ IF C16_Bases(r) = {}
               THEN resp.wow.base_vendas = <<>> /\ resp.wow.percent[1] = 0
               ELSE \E b \in C16_Bases(r) :
                       /\ resp.wow.base_vendas = <<total_vendas(b)>>
                       /\ IF total_vendas(b) = 0
                          THEN resp.wow.percent[1] = 0
                          ELSE C16_Percent(resp.wow.percent,
                                           total_vendas(r), total_vendas(b))

\* The summary of a register that sold more than the register of the same
\* owner closed a week before, whose total is not 0.
C16_Witness ==
    /\ resp.msg = "resumo.html"
    /\ resp.wow.base_vendas # <<>>
    /\ resp.wow.percent[1] > 0
    /\ resp.wow.base_data = <<25, 1, 2024>>

\* The summary of a register whose register of the week before has a total
\* of 0: the percent is 0.
C16_WitnessZero ==
    /\ resp.msg = "resumo.html"
    /\ resp.wow.base_vendas = <<0>>
    /\ resp.total_vendas # 0

\* The summary of a register of the administrator while the cashier has a
\* closed register dated a week before: it is not compared with.
C16_WitnessOutro ==
    /\ resp.msg = "resumo.html"
    /\ resp.wow.base_vendas = <<>>
    /\ \E r \in DOMAIN registros, b \in DOMAIN registros :
          /\ resp.registro_id = r
          /\ registros[b].status = "fechado"
          /\ registros[b].user_id # registros[r].user_id
          /\ registros[b].data = <<25, 1, 2024>>
          /\ registros[r].data = <<1, 2, 2024>>

\* The category of a ledger entry (OUTROS when it has none).
C17_Categoria(x) == IF x.grupo = "" THEN "OUTROS" ELSE x.grupo

\* The ledger entries a report page considers: the ones admin_lancamentos
\* lists, every entry for admin_relatorio.
C17_Considerados(page) ==
    IF page.msg = "admin_lancamentos.html"
    THEN {page.itens[k] : k \in 1..Len(page.itens)}
    ELSE DOMAIN livro

\* The amounts of the ledger entries ids, summed.
RECURSIVE C17_Soma(_)
C17_Soma(ids) ==
    IF ids = {} THEN 0
    ELSE LET i == CHOOSE x \in ids : TRUE
         IN  livro[i].valor + C17_Soma(ids \ {i})

\* The numbers of a sequence, summed.
RECURSIVE C17_Total(_)
C17_Total(seq) == IF seq = <<>> THEN 0 ELSE Head(seq) + C17_Total(Tail(seq))

\* The pivot of the page has for category g, on every day of the range,
\* the sum of the considered entries of g of that day, and as grand total
\* the sum of its day totals.
C17_CategoriaCerta(page, g) ==
    \E k \in 1..Len(page.pivot) :
        /\ page.pivot[k].grupo = g
        /\ \A j \in 1..Len(page.dias) :
              page.pivot[k].totals[j] =
                 C17_Soma({i \in C17_Considerados(page) :
                              /\ C17_Categoria(livro[i]) = g
                              /\ livro[i].data = page.dias[j]})
        /\ page.pivot[k].total = C17_Total(page.pivot[k].totals)

\* The categories with a considered entry on a day of the range.
C17_Categorias(page) ==
    {C17_Categoria(livro[i]) :
        i \in {x \in C17_Considerados(page) :
                  \E j \in 1..Len(page.dias) : livro[x].data = page.dias[j]}}

\* C17: in the pivot of admin_lancamentos and in the pivot of
\* admin_relatorio every category with entries in the range has, for every
\* day, the sum of its considered entries of that day and, as grand total,
\* the sum of its day totals, also when amounts are zero or negative.
C17_PivotSums ==
    resp.msg \in {"admin_lancamentos.html", "admin_relatorio_semana.html"} =>
        \A g \in C17_Categorias(resp) : C17_CategoriaCerta(resp, g)

\* The same for the pivot of admin_lancamentos alone.
C17_PivotSumsLancamentos ==
    resp.msg = "admin_lancamentos.html" =>
        \A g \in C17_Categorias(resp) : C17_CategoriaCerta(resp, g)

\* A request of client c to one of the register operations.
C18_RegistroOp(c) ==
    \/ \E in \in AberturaInputs : abertura(c, in)
    \/ \E r \in RegistroIds, d \in FechamentoInputs : fechamento(c, r, d)
    \/ \E r \in RegistroIds : admin_delete_registro(c, r)

\* A request of client c that creates, edits or deletes a ledger entry.
C18_LivroOp(c) ==
    \/ \E f \in LancamentoForms : admin_lancamentos(c, f)
    \/ \E i \in LivroIds : admin_lancamentos_delete(c, i)

\* C18: abertura, fechamento and admin_delete_registro leave every ledger
\* entry as it was; creating, editing or deleting a ledger entry leaves
\* every register and every withdrawal as it was.
C18_RegistersAndLedgerIndependent ==
    [][/\ livro' = livro \/ \A c \in Clients : ~C18_RegistroOp(c)
       /\ (registros' = registros /\ sangrias' = sangrias)
             \/ \A c \in Clients : ~C18_LivroOp(c)]_vars

\* A ledger entry was just deleted while a closed register with its two
\* withdrawals exists.
C18_Witness ==
    /\ resp.msg = "Lancamento removido."
    /\ livro = <<>>
    /\ \E r \in DOMAIN registros :
          registros[r].status = "fechado" /\ Len(sangrias[r]) = 2

\* A request of client c to one of the pages and reports.
C19_Leitura(c) ==
    \/ homepage(c)
    \/ abertura_get(c)
    \/ \E r \in RegistroIds : fechamento_get(c, r)
    \/ \E r \in RegistroIds : resumo_dia(c, r)
    \/ \E u \in FiltroInputs : historico(c, u)
    \/ admin_users_get(c)
    \/ \E s \in RangeInputs, e \in RangeInputs, t \in TipoInputs, f \in FormaInputs :
          admin_lancamentos_get(c, s, e, t, f)
    \/ \E s \in RangeInputs, e \in RangeInputs : admin_relatorio(c, s, e)

\* C19: homepage, GET abertura, GET fechamento, resumo_dia, historico, GET
\* admin_users, GET admin_lancamentos and admin_relatorio leave users,
\* registers, withdrawals and ledger entries unchanged.
C19_ReadsChangeNothing ==
    [][db' = db \/ \A c \in Clients : ~C19_Leitura(c)]_vars

\* The owner of a closed register with withdrawals was just shown its
\* fechamento page, and the ledger has an entry.
C19_Witness ==
    /\ resp.msg = "fechamento.html"
    /\ resp.registro_id \in DOMAIN registros
    /\ registros[resp.registro_id].status = "fechado"
    /\ registros[resp.registro_id].ifood_vendas = 10
    /\ Len(sangrias[resp.registro_id]) = 2
    /\ livro # <<>>

\* The day a start or end parameter asks for: the parameter's when it is a
\* date, else the Monday (start) or the Sunday (end) of the current week.
C20_Dia(raw, padrao) ==
    IF raw # <<>> /\ raw[1] = "iso" THEN <<raw[4], raw[3], raw[2]>>
    ELSE IF raw # <<>> /\ raw[1] = "br" /\ ValidDate(raw[2], raw[3], raw[4])
    THEN <<raw[2], raw[3], raw[4]>>
    ELSE padrao

\* The number of a day in the calendar, counted from 01/01/2024.
C20_Num(dia) ==
    (dia[3] - 2024) * 366
    + <<0, 31, 60, 91, 121, 152, 182, 213, 244, 274, 305, 335>>[dia[2]]
    + dia[1]

\* The list of days is a range for the parameters s and e: it starts on
\* the earlier of the two days asked for, its days are consecutive, it has
\* at most 31 of them, and it ends on the later of the two days asked for
\* unless that leaves more than 31.
C20_Range(s, e, dias) ==
    LET a == C20_Dia(s, <<29, 1, 2024>>)
        b == C20_Dia(e, <<4, 2, 2024>>)
        primeiro == IF C20_Num(a) <= C20_Num(b) THEN a ELSE b
        ultimo   == IF C20_Num(a) <= C20_Num(b) THEN b ELSE a
    IN  /\ Len(dias) \in 1..31
        /\ dias[1] = primeiro
        /\ \A j \in 1..(Len(dias) - 1) : C20_Num(dias[j + 1]) = C20_Num(dias[j]) + 1
        /\ C20_Num(ultimo) - C20_Num(primeiro) < 31 => dias[Len(dias)] = ultimo

\* C20: for every pair of start and end parameters the days admin_relatorio
\* reports on are consecutive, from the earlier to the later of the two
\* days (swapped when given reversed), and at most 31.
C20_RangeAtMost31Days ==
    [][\A c \in Clients, s \in RangeInputs, e \in RangeInputs :
         (resp'.msg = "admin_relatorio_semana.html" /\ admin_relatorio(c, s, e))
            => C20_Range(s, e, resp'.dias)]_vars

\* The days admin_relatorio reports on are never more than 31.
C20_AtMost31 ==
    resp.msg = "admin_relatorio_semana.html" => Len(resp.dias) <= 31

\* The closed registers dated dia, of every user.
C21_Fechados(dia) ==
    {r \in DOMAIN registros :
        registros[r].status = "fechado" /\ registros[r].data = dia}

\* The column campo added up over the registers rs.
RECURSIVE C21_Soma(_, _)
C21_Soma(rs, campo) ==
    IF rs = {} THEN 0
    ELSE LET r == CHOOSE x \in rs : TRUE
         IN  registros[r][campo] + C21_Soma(rs \ {r}, campo)

\* The values of day j on the lines of the page whose payment method is meio,
\* added up.
RECURSIVE C21_SomaLinhas(_, _, _)
C21_SomaLinhas(linhas, meio, j) ==
    IF linhas = <<>> THEN 0
    ELSE (IF linhas[1].label[2] = Capitalize(meio) THEN linhas[1].valores[j] ELSE 0)
         + C21_SomaLinhas(Tail(linhas), meio, j)

\* The columns of the terminals of an acquirer for a payment method.
C21_Campos(brand, meio) ==
    {MAQS[m][meio] : m \in {n \in 1..Len(MAQS) :
                              /\ MAQS[n][meio] # ""
                              /\ \/ MAQS[n].nome = brand
                                 \/ brand = "Itau" /\ MAQS[n].nome \in
                                        {"Itau 1", "Itau 2", "Itau 3"}}}

\* The columns cols of the registers rs, added up.
RECURSIVE C21_SomaCols(_, _)
C21_SomaCols(rs, cols) ==
    IF cols = {} THEN 0
    ELSE LET col == CHOOSE x \in cols : TRUE
         IN  C21_Soma(rs, col) + C21_SomaCols(rs, cols \ {col})

\* The columns cols of the closed registers of the days dias, added up.
RECURSIVE C21_SomaDias(_, _)
C21_SomaDias(dias, cols) ==
    IF dias = <<>> THEN 0
    ELSE C21_SomaCols(C21_Fechados(dias[1]), cols)
         + C21_SomaDias(Tail(dias), cols)

\* C21: on the page of admin_relatorio the value of a terminal, payment
\* method and day is the sum of that column over the registers of every user
\* that are closed and carry that date (an open register adds nothing to a
\* line, to a total per payment method or to a row of the fee table), there
\* is one line per terminal and payment method, and the total of a payment
\* method on a day is the sum of that day's values on its lines.
C21_CardLinesSumClosedRegisters ==
    resp.msg = "admin_relatorio_semana.html" =>
        /\ \A m \in 1..Len(MAQS), meio \in {"debito", "credito", "pix"} :
              MAQS[m][meio] # "" =>
                 /\ Cardinality({k \in 1..Len(resp.linhas_maqs) :
                        resp.linhas_maqs[k].label
                            = <<MAQS[m].nome, Capitalize(meio)>>}) = 1
                 /\ \A k \in 1..Len(resp.linhas_maqs) :
                       resp.linhas_maqs[k].label = <<MAQS[m].nome, Capitalize(meio)>>
                       => \A j \in 1..Len(resp.dias) :
                             resp.linhas_maqs[k].valores[j]
                                = C21_Soma(C21_Fechados(resp.dias[j]), MAQS[m][meio])
        /\ \A meio \in {"debito", "credito", "pix"} :
              /\ Len(resp.tot_por_meio[meio]) = Len(resp.dias)
              /\ \A j \in 1..Len(resp.dias) :
                    resp.tot_por_meio[meio][j]
                       = C21_SomaLinhas(resp.linhas_maqs, meio, j)
        /\ \A k \in 1..Len(resp.tax_rows) :
              resp.tax_rows[k].soma
                 = C21_SomaDias(resp.dias,
                                C21_Campos(resp.tax_rows[k].brand,
                                           resp.tax_rows[k].meio))

\* The report shows, for a day on which the administrator and the cashier
\* each closed a register with 5 on the Mercado Pago debit column, 10 on
\* that line and in the debit total of the day.
C21_Witness ==
    /\ resp.msg = "admin_relatorio_semana.html"
    /\ \E j \in 1..Len(resp.dias) :
          /\ \E r1, r2 \in C21_Fechados(resp.dias[j]) :
                /\ registros[r1].user_id # registros[r2].user_id
                /\ registros[r1].mp_debito = 5
                /\ registros[r2].mp_debito = 5
          /\ resp.linhas_maqs[1].label = <<"Mercado Pago", "Debito">>
          /\ resp.linhas_maqs[1].valores[j] = 10
          /\ resp.tot_por_meio["debito"][j] = 10
          /\ resp.tax_rows[1].soma = 10

\* The report of a range with a closed register that has card figures and,
\* on a day of the range, a register that is still open.
C21_WitnessAberto ==
    /\ resp.msg = "admin_relatorio_semana.html"
    /\ \E j \in 1..Len(resp.dias), r \in DOMAIN registros :
          /\ registros[r].status = "aberto"
          /\ registros[r].data = resp.dias[j]
    /\ \E k \in 1..Len(resp.linhas_maqs) : resp.linhas_maqs[k].total > 0

\* C22: no step takes a register from 'fechado' back to 'aberto': a closed
\* register that is there after a step (a further fechamento POST on it
\* included, which rewrites its figures) is closed after it.
C22_ClosedStaysClosed ==
    [][\A r \in DOMAIN registros :
          (registros[r].status = "fechado" /\ r \in DOMAIN registros')
             => registros'[r].status = "fechado"]_vars

\* The register of 25/01/2024 opened with an empty drawer, which was closed
\* with an empty payload at the start, has taken a further fechamento POST
\* with the terminal figures of DadosCartoes and is closed.
C22_Witness ==
    /\ resp.msg = MsgFechado
    /\ \E r \in DOMAIN registros :
          /\ registros[r].data = <<25, 1, 2024>>
          /\ registros[r].valor_inicial_caixa = 0
          /\ registros[r].mp_debito = 5
          /\ registros[r].status = "fechado"

\* C23: a fechamento POST on register r leaves the owner, the date and the
\* opening cash amount of r as they were, and leaves every other register
\* (its columns and its status) and every user as they were.
C23_FechamentoFrame ==
    [][\A c \in Clients, r \in RegistroIds, d \in FechamentoInputs :
         fechamento(c, r, d) =>
            /\ users' = users
            /\ DOMAIN registros' = DOMAIN registros
            /\ \A q \in DOMAIN registros \ {r} : registros'[q] = registros[q]
            /\ r \in DOMAIN registros =>
                  /\ registros'[r].user_id = registros[r].user_id
                  /\ registros'[r].data = registros[r].data
                  /\ registros'[r].valor_inicial_caixa
                        = registros[r].valor_inicial_caixa]_vars

\* A fechamento just ran on a register dated 25/01/2024 that was opened with
\* 5 in the drawer, while the other user has a register that is open.
C23_Witness ==
    /\ resp.msg = MsgFechado
    /\ \E r \in DOMAIN registros, q \in DOMAIN registros :
          /\ registros[r].status = "fechado"
          /\ registros[r].data = <<25, 1, 2024>>
          /\ registros[r].valor_inicial_caixa = 5
          /\ registros[r].mp_debito = 5
          /\ registros[q].status = "aberto"
          /\ registros[q].user_id # registros[r].user_id

\* C24, as stated: the owner of every register and the owner of every ledger
\* entry is a user that exists.
C24_OwnersExist ==
    /\ \A r \in DOMAIN registros : registros[r].user_id \in DOMAIN users
    /\ \A i \in DOMAIN livro : livro[i].user_id \in DOMAIN users

\* The half of C24 on the registers: the owner of every register exists, and
\* a step that removes a user removes one who owns no register.
C24_RegisterOwnersExist ==
    /\ [](\A r \in DOMAIN registros : registros[r].user_id \in DOMAIN users)
    /\ [][\A u \in DOMAIN users \ DOMAIN users' : RegistrosOf(u) = {}]_vars

\* The administrator was refused (with the error of the failed commit) the
\* removal of the cashier, who owns a register.
C24_WitnessRegistro ==
    /\ resp.msg = "500"
    /\ \E u \in DOMAIN users : RegistrosOf(u) # {} /\ users[u].role # "admin"

\* A logged-in user can close each open register of theirs: the fechamento
\* POST is accepted and leaves the register closed.
C25_PodeFechar ==
    \A u \in sessions \cap DOMAIN users, r \in RegistroIds, d \in FechamentoInputs :
       r \in AbertosDe(u) =>
          ENABLED (/\ fechamento(u, r, d)
                   /\ resp'.msg = MsgFechado
                   /\ registros'[r].status = "fechado")

\* The abertura POSTs of user u are accepted and each adds an open register
\* of u.
C25_PodeAbrir(u) ==
    \A in \in AberturaInputs :
       ENABLED (/\ abertura(u, in)
                /\ resp'.msg = MsgAberto
                /\ \E q \in DOMAIN registros' \ DOMAIN registros :
                      /\ registros'[q].status = "aberto"
                      /\ registros'[q].user_id = u)

\* A logged-in user with no open register can open one, whatever the
\* registers of the other users (while the table has a key left under
\* MaxRegistroId).
C25_SoOProprioBloqueia ==
    \A u \in sessions \cap DOMAIN users :
       (AbertosDe(u) = {} /\ NextId(registros) \in RegistroIds) => C25_PodeAbrir(u)

\* After an accepted fechamento POST of a user on an open register of
\* theirs, the user has no open register left to refuse their next abertura.
C25_FechouEPodeAbrir ==
    \A c \in Clients, r \in RegistroIds, d \in FechamentoInputs :
       (resp'.msg = MsgFechado /\ r \in AbertosDe(c) /\ fechamento(c, r, d))
          => \A q \in DOMAIN registros' :
                ~(registros'[q].status = "aberto" /\ registros'[q].user_id = c)

\* C25: opening is blocked only by the user's own open register: a logged-in
\* user who has an open register can always close it, after that close the
\* user's next abertura is accepted and adds an open register, and the open
\* registers of other users never block a user's abertura.
C25_OpeningBlockedOnlyByOwnRegister ==
    /\ []C25_PodeFechar
    /\ []C25_SoOProprioBloqueia
    /\ [][C25_FechouEPodeAbrir]_vars

\* C25 but for the close that leaves the user free to open: the two parts
\* that hold of interleaved requests too.
C25_CloseAndOpenEnabled ==
    /\ []C25_PodeFechar
    /\ []C25_SoOProprioBloqueia

\* A user closed their open register, has none open and can open again.
C25_WitnessFechou ==
    /\ resp.msg = MsgFechado
    /\ \E u \in sessions \cap DOMAIN users :
          /\ AbertosDe(u) = {}
          /\ \E r \in DOMAIN registros :
                registros[r].user_id = u /\ registros[r].status = "fechado"
          /\ NextId(registros) \in RegistroIds
          /\ C25_PodeAbrir(u)

\* A logged-in user with no open register can open one while another user
\* has one open.
C25_WitnessOutro ==
    \E u \in sessions \cap DOMAIN users, v \in DOMAIN users :
       /\ u # v
       /\ AbertosDe(u) = {}
       /\ AbertosDe(v) # {}
       /\ C25_PodeAbrir(u)

\* C26: fechamento is idempotent: on a register that carries what a
\* fechamento POST with payload d leaves (its columns and its withdrawals),
\* a further accepted POST with the same payload d changes no table: the
\* register's columns are the same and its withdrawals are the same in
\* number and content, with none added.
C26_FechamentoIdempotent ==
    [][\A c \in Clients, r \in RegistroIds, d \in FechamentoInputs :
         (/\ resp'.msg = MsgFechado
          /\ r \in DOMAIN registros
          /\ registros[r] = Fechado(registros[r], d)
          /\ sangrias[r] = NovasSangrias(d)
          /\ fechamento(c, r, d))
            => /\ registros' = registros
               /\ sangrias' = sangrias
               /\ Len(sangrias'[r]) = Len(C6_Lista(d))]_vars

\* A register closed with the payload of two withdrawals carries exactly
\* these two, and its owner's POST of the same payload is accepted again.
C26_Witness ==
    /\ resp.msg = MsgFechado
    /\ \E r \in DOMAIN registros :
          /\ registros[r] = Fechado(registros[r], DadosComSangrias)
          /\ sangrias[r] = NovasSangrias(DadosComSangrias)
          /\ Len(sangrias[r]) = 2
          /\ ENABLED (/\ fechamento(registros[r].user_id, r, DadosComSangrias)
                      /\ resp'.msg = MsgFechado
                      /\ sangrias'[r] = sangrias[r]
                      /\ registros'[r] = registros[r])

====
